---- MODULE Spec2Model ----
(***************************************************************************)
(* A model of the database import pipeline of the CodeQL extension         *)
(* (extensions/ql-vscode/src/databases/database-fetcher.ts).               *)
(*                                                                         *)
(* Every asynchronous function is cut at its awaits: an action is the      *)
(* synchronous code between two awaits together with the outcome of the    *)
(* awaited operation.  Spec runs one top-level import call at a time,      *)
(* SpecConcurrent several calls of databaseArchiveFetcher together;        *)
(* SpecNormalize and SpecLocate call ensureZippedSourceLocation and        *)
(* findDirWithFile on trees of their own.                                  *)
(*                                                                         *)
(* Text is a sequence of one-character strings; a path below the storage   *)
(* root or below an unpacked folder is a sequence of entry names.          *)
(***************************************************************************)
EXTENDS Integers, Sequences, FiniteSets, TLC

(***************************************************************************)
(* Bounds of the model.                                                    *)
(***************************************************************************)
\* top-level import calls in one behaviour
MaxCalls == 2
\* calls of ensureZippedSourceLocation made by the normalisation harness
MaxNormalizeCalls == 2

(***************************************************************************)
(* Program constants.                                                      *)
(***************************************************************************)
\* getStorageFolder: substring(0, 250)
MaxNameLength == 250
\* getStorageFolder: if (counter > 100) throw
MaxCounter == 100

(***************************************************************************)
(* Text.                                                                   *)
(***************************************************************************)
DigitChar == <<"0", "1", "2", "3", "4", "5", "6", "7", "8", "9">>

RECURSIVE Decimal(_)
\* `${counter}`: the decimal digits of a natural number
Decimal(n) ==
    IF n < 10 THEN <<DigitChar[n + 1]>>
    ELSE Decimal(n \div 10) \o <<DigitChar[(n % 10) + 1]>>

\* the text never cut
Substring0Uncut(s, n) == s

\* s.substring(0, n)
Substring0(s, n) == IF Len(s) <= n THEN s ELSE SubSeq(s, 1, n)

\* s.endsWith(suffix)
EndsWith(s, suffix) ==
    /\ Len(s) >= Len(suffix)
    /\ SubSeq(s, Len(s) - Len(suffix) + 1, Len(s)) = suffix

DotZip == <<".", "z", "i", "p">>

(***************************************************************************)
(* Locations.  A location string is kept as what Uri.parse reads from it:  *)
(* its scheme ("" when the text has none) and the segments of its path.    *)
(* The empty text is the value an input box gives when it is dismissed     *)
(* (undefined and "" are both falsy).                                      *)
(***************************************************************************)
NoUrl == [scheme |-> "", path |-> <<>>]

HttpsDbZip == [scheme |-> "https", path |-> << <<"d", "b", ".", "z", "i", "p">> >>]
HttpDbZip  == [scheme |-> "http",  path |-> << <<"d", "b", ".", "z", "i", "p">> >>]
FileDbZip  == [scheme |-> "file",  path |-> << <<"t", "m", "p">>, <<"d", "b", ".", "z", "i", "p">> >>]
BareDbZip  == [scheme |-> "",      path |-> << <<"t", "m", "p">>, <<"d", "b", ".", "z", "i", "p">> >>]

\* the locations a caller, a user or the GitHub API can supply
Urls == {HttpsDbZip, HttpDbZip, FileDbZip, BareDbZip}

\* Uri.parse(value, strict): strict parsing throws when the scheme is missing
UriParseThrows(u, strict) == strict /\ u.scheme = ""

\* Uri.parse(value).scheme: a missing scheme is read as "file"
UriScheme(u) == IF u.scheme = "" THEN "file" ELSE u.scheme

\* basename(url.path)
Basename(path) == IF path = <<>> THEN <<>> ELSE path[Len(path)]

\* the scheme compared with the text of a protocol, which has a colon
isFileWithColon(databaseUrl) == UriScheme(databaseUrl) = "file:"

\* isFile
isFile(databaseUrl) == UriScheme(databaseUrl) = "file"

\* Uri.parse(zipUrl).fsPath
FsPath(u) == u.path

\* Uri.file(path).toString(true), as Uri.parse reads it back
UriFile(path) == [scheme |-> "file", path |-> path]

\* join(tmpDir.name, `archive-${Date.now()}.zip`), Date.now() having read n
ArchiveFile(n) ==
    << <<"t", "m", "p", "D", "i", "r">>,
       <<"a", "r", "c", "h", "i", "v", "e", "-">> \o Decimal(n) \o DotZip >>

\* validateUrl with the setting read the wrong way round
validateUrlFlagInverted(databaseUrl, allow) ==
    IF UriParseThrows(databaseUrl, TRUE) THEN "Invalid url"
    ELSE IF allow /\ UriScheme(databaseUrl) # "https"
         THEN "Must use https for downloading a database."
         ELSE "ok"

\* validateUrl: "ok", or the error it throws
validateUrl(databaseUrl, allow) ==
    IF UriParseThrows(databaseUrl, TRUE) THEN "Invalid url"
    ELSE IF ~allow /\ UriScheme(databaseUrl) # "https"
         THEN "Must use https for downloading a database."
         ELSE "ok"

(***************************************************************************)
(* getStorageFolder.  The storage root is the set of the names of its      *)
(* entries; join(realpath, "") is the storage root itself, which exists.   *)
(***************************************************************************)
pathExists(names, name) == name = <<>> \/ name \in names

\* the folder name before disambiguation
LastName(u) ==
    LET cut == Substring0(Basename(u.path), MaxNameLength)
    IN  IF EndsWith(cut, DotZip) THEN SubSeq(cut, 1, Len(cut) - 4) ELSE cut

\* `${lastName}-${counter}`
Candidate(lastName, counter) ==
    IF counter = 0 THEN lastName ELSE lastName \o <<"-">> \o Decimal(counter)

\* the name the loop holds in folderName when its counter is k, having been
\* entered with folderName and counter
TriedName(lastName, folderName, counter, k) ==
    IF k = counter THEN folderName ELSE Candidate(lastName, k)

\* the loop leaves at k: the name held at k does not exist, and every name held
\* before it does
LeavesAt(names, lastName, folderName, counter, k) ==
    /\ ~pathExists(names, TriedName(lastName, folderName, counter, k))
    /\ \A j \in counter..(k - 1) :
           pathExists(names, TriedName(lastName, folderName, counter, j))

\* the existence of the first name checked, the next name taken unchecked
StorageLoopOnce(names, lastName, folderName, counter) ==
    IF pathExists(names, folderName)
    THEN [ok |-> TRUE, folder |-> Candidate(lastName, counter + 1), counter |-> counter + 1]
    ELSE [ok |-> TRUE, folder |-> folderName, counter |-> counter]

\* the loop giving up one name early: counter >= 100
StorageLoopEarly(names, lastName, folderName, counter) ==
    LET last == IF counter > MaxCounter - 1 THEN counter ELSE MaxCounter - 1
    IN  IF \E k \in counter..last : LeavesAt(names, lastName, folderName, counter, k)
        THEN LET k == CHOOSE k \in counter..last :
                          LeavesAt(names, lastName, folderName, counter, k)
             IN  [ok |-> TRUE, folder |-> TriedName(lastName, folderName, counter, k),
                  counter |-> k]
        ELSE [ok |-> FALSE, folder |-> <<>>, counter |-> last + 1]

\* the while loop of getStorageFolder, entered with folderName and counter:
\* while folderName exists, counter++ and folderName = `${lastName}-${counter}`,
\* throwing once counter > 100.  The loop is left at the first counter whose
\* name does not exist; it throws when every name up to counter 100 exists.
StorageLoop(names, lastName, folderName, counter) ==
    LET last == IF counter > MaxCounter THEN counter ELSE MaxCounter
    IN  IF \E k \in counter..last : LeavesAt(names, lastName, folderName, counter, k)
        THEN LET k == CHOOSE k \in counter..last :
                          LeavesAt(names, lastName, folderName, counter, k)
             IN  [ok |-> TRUE, folder |-> TriedName(lastName, folderName, counter, k),
                  counter |-> k]
        ELSE [ok |-> FALSE, folder |-> <<>>, counter |-> last + 1]

\* getStorageFolder(storagePath, urlStr): the folder, or ok = FALSE when it throws
getStorageFolder(names, u) == StorageLoop(names, LastName(u), LastName(u), 0)

(***************************************************************************)
(* Directory trees.  An entry has a name, a kind ("dir" or "file"), the    *)
(* data of a file and the listing of a directory, in the order readdir     *)
(* returns it.                                                             *)
(***************************************************************************)
File(name, data) == [name |-> name, kind |-> "file", data |-> data, children |-> <<>>]
Dir(name, children) == [name |-> name, kind |-> "dir", data |-> "", children |-> children]

\* readdir: the names of a listing
NameSet(children) == {children[i].name : i \in 1..Len(children)}

\* the index of the entry called name in a listing, 0 when there is none
IndexOf(children, name) ==
    IF name \in NameSet(children)
    THEN CHOOSE i \in 1..Len(children) : children[i].name = name
    ELSE 0

RECURSIVE ChildrenAt(_, _)
\* the listing of the directory at path below a directory with this listing
ChildrenAt(children, path) ==
    IF path = <<>> THEN children
    ELSE ChildrenAt(children[IndexOf(children, Head(path))].children, Tail(path))

RECURSIVE ReplaceAt(_, _, _)
\* the listing with the listing of the directory at path replaced
ReplaceAt(children, path, new) ==
    IF path = <<>> THEN new
    ELSE LET i == IndexOf(children, Head(path))
         IN  [children EXCEPT ![i].children = ReplaceAt(@, Tail(path), new)]

\* a listing without the entry called name
Without(children, name) ==
    SelectSeq(children, LAMBDA e : e.name # name)

\* the marker files of a database root
Markers == {".dbinfo", "codeql-database.yml"}

NotFound == [found |-> FALSE, path |-> <<>>]

RECURSIVE findDirWithFile(_, _, _)
RECURSIVE FindInListing(_, _, _, _)
\* the search looking below a directory before looking at its own listing
findDirWithFileChildrenFirst(entry, path, toFind) ==
    IF entry.kind # "dir" THEN NotFound
    ELSE LET below == FindInListing(entry.children, 1, path, toFind)
         IN  IF below.found THEN below
             ELSE IF \E file \in toFind : file \in NameSet(entry.children)
                  THEN [found |-> TRUE, path |-> path]
                  ELSE NotFound

\* findDirWithFile(dir, ...toFind), dir being the entry at path
findDirWithFile(entry, path, toFind) ==
    IF entry.kind # "dir" THEN NotFound
    ELSE IF \E file \in toFind : file \in NameSet(entry.children)
         THEN [found |-> TRUE, path |-> path]
         ELSE FindInListing(entry.children, 1, path, toFind)

\* the loop returning whatever the first entry gives, found or not
FindInListingFirstOnly(children, i, path, toFind) ==
    IF i > Len(children) THEN NotFound
    ELSE findDirWithFile(children[i], Append(path, children[i].name), toFind)

\* the for loop of findDirWithFile, from the i-th entry of the listing
FindInListing(children, i, path, toFind) ==
    IF i > Len(children) THEN NotFound
    ELSE LET result == findDirWithFile(children[i], Append(path, children[i].name), toFind)
         IN  IF result.found THEN result
             ELSE FindInListing(children, i + 1, path, toFind)

(***************************************************************************)
(* What an archive unpacks to: the listing of the destination folder.      *)
(***************************************************************************)
LooseSrc == Dir("src", <<File("a.c", "text")>>)
PackedSrc == File("src.zip", "packed")

\* a marker and a loose src at the top of the archive
ArcRootSrc == <<File(".dbinfo", "info"), LooseSrc>>
\* the database one folder down, with a loose src
ArcNestedSrc == <<Dir("nested", <<File(".dbinfo", "info"), LooseSrc>>)>>
\* the database one folder down, its source already zipped
ArcNestedZip == <<Dir("db", <<File("codeql-database.yml", "yml"), PackedSrc>>)>>
\* both a loose src and a src.zip
ArcNestedBoth == <<Dir("db", <<File("codeql-database.yml", "yml"), LooseSrc, PackedSrc>>)>>
\* neither
ArcNestedNone == <<Dir("db", <<File(".dbinfo", "info")>>)>>
\* no marker anywhere
ArcNoMarker == <<File("readme", "text"), Dir("db", <<LooseSrc>>)>>

Archives == {ArcRootSrc, ArcNestedSrc, ArcNestedZip, ArcNestedBoth, ArcNestedNone, ArcNoMarker}

(***************************************************************************)
(* GitHub: what the user types, and what the code-scanning API lists.      *)
(***************************************************************************)
\* the repository texts an input box or a caller gives; "" is a dismissal
Repos == {"", "github/codeql", "not a repository"}

\* isValidGitHubNwo(getNwoFromGitHubUrl(githubRepo) || githubRepo)
isValidGitHubNwo(githubRepo) == githubRepo = "github/codeql"

DbEntry(language, url, id) == [language |-> language, url |-> url, id |-> id]

\* the responses of listCodeqlDatabases
Listings ==
    { <<>>,
      <<DbEntry("python", HttpsDbZip, 1)>>,
      <<DbEntry("python", HttpDbZip, 1)>>,
      <<DbEntry("python", HttpsDbZip, 1), DbEntry("java", HttpsDbZip, 2)>> }

\* the language argument; "" is undefined
LanguageArgs == {"", "python", "go"}

\* response.data.map((db) => db.language)
Languages(listing) == [i \in 1..Len(listing) |-> listing[i].language]
LanguageSet(listing) == {listing[i].language : i \in 1..Len(listing)}

NoEntry == DbEntry("", NoUrl, 0)

\* response.data.find((db) => db.language === language)
DatabaseForLanguage(listing, language) ==
    IF language \in LanguageSet(listing)
    THEN listing[CHOOSE i \in 1..Len(listing) :
                    /\ listing[i].language = language
                    /\ \A j \in 1..(i - 1) : listing[j].language # language]
    ELSE NoEntry

(***************************************************************************)
(* Errors.                                                                 *)
(***************************************************************************)
UnexpectedEof == "unbundle: unexpected end of file"
CorruptArchive == "Database is corrupt or too large. Try unzipping outside of VS Code and importing the unzipped folder instead."

\* getErrorMessage(e).includes("unexpected end of file")
IncludesUnexpectedEof(message) == message = UnexpectedEof

\* what the caller of the entry point receives when e is thrown below it:
\* importArchiveDatabase catches and re-wraps, the other entry points do not
Propagated(entryPoint, e) ==
    IF entryPoint = "importArchiveDatabase" /\ IncludesUnexpectedEof(e)
    THEN CorruptArchive
    ELSE e

\* the message of the AbortError the timeout signal makes fetch and the body
\* of the response fail with
Aborted == "The user aborted a request."

\* the catch around fetch: an AbortError is thrown again as a request timeout
RequestError(e) == IF e = Aborted THEN "The request timed out." ELSE e

\* the catch around the pipe with the label of the catch around fetch
DownloadErrorAsRequest(e) == IF e = Aborted THEN "The request timed out." ELSE e

\* the catch around the pipe: an AbortError is thrown again as a download timeout
DownloadError(e) == IF e = Aborted THEN "The download timed out." ELSE e

(***************************************************************************)
(* Responses.  The body of a response is text that JSON.parse rejects, the *)
(* JSON null, or a JSON object: its fields and their values (text), in     *)
(* the order of the text.                                                  *)
(***************************************************************************)
RECURSIVE Members(_, _, _)
\* the members of an object from the i-th on, as JSON.stringify writes them
Members(fields, i, indent) ==
    IF i > Len(fields) THEN ""
    ELSE indent \o "\"" \o fields[i][1] \o "\":" \o (IF indent = "" THEN "" ELSE " ")
         \o "\"" \o fields[i][2] \o "\""
         \o (IF i < Len(fields) THEN "," ELSE "") \o (IF indent = "" THEN "" ELSE "\n")
         \o Members(fields, i + 1, indent)

\* JSON.stringify(obj, null, 2)
Pretty(fields) == IF fields = <<>> THEN "{}" ELSE "{\n" \o Members(fields, 1, "  ") \o "}"

\* the text of an object as a server sends it
Compact(fields) == "{" \o Members(fields, 1, "") \o "}"

TextBody(text) == [kind |-> "text", text |-> text, fields |-> <<>>]
NullBody == [kind |-> "null", text |-> "null", fields |-> <<>>]
ObjectBody(fields) == [kind |-> "object", text |-> Compact(fields), fields |-> fields]

\* the bodies of the failing responses
FailingBodies ==
    { TextBody("Bad gateway"),
      NullBody,
      ObjectBody(<<>>),
      ObjectBody(<< <<"status", "502">> >>),
      ObjectBody(<< <<"error", "e">>, <<"message", "m">>, <<"reason", "r">> >>),
      ObjectBody(<< <<"message", "m">>, <<"reason", "r">> >>),
      ObjectBody(<< <<"reason", "r">> >>),
      ObjectBody(<< <<"error", "">>, <<"message", "m">> >>),
      ObjectBody(<< <<"error", "">> >>) }

NoResponse == [ok |-> FALSE, body |-> TextBody("")]

\* what fetch resolves with: response.ok and the body
Responses ==
    {[ok |-> TRUE, body |-> TextBody("PK")]} \cup {[ok |-> FALSE, body |-> b] : b \in FailingBodies}

\* obj.name: the value of the last member of that name, "" standing
\* for undefined, which is as falsy as the empty text
Member(fields, name) ==
    IF \E i \in 1..Len(fields) : fields[i][1] = name
    THEN fields[CHOOSE i \in 1..Len(fields) :
                   /\ fields[i][1] = name
                   /\ \A j \in (i + 1)..Len(fields) : fields[j][1] # name][2]
    ELSE ""

\* the reason with message looked at before error
ReasonMessageFirst(body) ==
    IF body.kind # "object" THEN body.text
    ELSE IF Member(body.fields, "message") # "" THEN Member(body.fields, "message")
    ELSE IF Member(body.fields, "error") # "" THEN Member(body.fields, "error")
    ELSE IF Member(body.fields, "reason") # "" THEN Member(body.fields, "reason")
    ELSE Pretty(body.fields)

\* msg of checkForFailingResponse: JSON.parse throws for text, obj.error
\* throws for null, and both leave msg = text
Reason(body) ==
    IF body.kind # "object" THEN body.text
    ELSE IF Member(body.fields, "error") # "" THEN Member(body.fields, "error")
    ELSE IF Member(body.fields, "message") # "" THEN Member(body.fields, "message")
    ELSE IF Member(body.fields, "reason") # "" THEN Member(body.fields, "reason")
    ELSE Pretty(body.fields)

\* checkForFailingResponse(response, errorMessage): ok, or the error thrown
checkForFailingResponse(fetched, errorMessage) ==
    IF fetched.ok THEN [ok |-> TRUE, message |-> ""]
    ELSE [ok |-> FALSE, message |-> errorMessage \o ".\n\nReason: " \o Reason(fetched.body)]

(***************************************************************************)
(* Progress.                                                               *)
(***************************************************************************)
Report(step, maxStep) == [step |-> step, maxStep |-> maxStep]

\* reportStreamProgress, the body arriving in one data event: a report of the
\* bytes received so far when the response gave a content-length
StreamReports(sizeKnown, received) ==
    IF sizeKnown /\ received THEN <<Report(1, 1)>> ELSE <<>>

(***************************************************************************)
(* State.                                                                  *)
(***************************************************************************)
VARIABLES
    allowHttp,            \* the setting allowHttp() reads
    storageDir,           \* whether the storage root exists
    storage,              \* the names of the entries of the storage root
    tmpFiles,             \* the temporary archives on disk, by the call that made them
    closing,              \* write streams being closed; the callback removes the file
    databaseItems,        \* databaseManager.databaseItems
    currentDatabaseItem,  \* index into databaseItems, 0 when none
    calls,                \* top-level calls started
    pc,                   \* where the running call is
    entryPoint,           \* the exported function that was called
    databaseUrl,          \* databaseArchiveFetcher's databaseUrl
    language,             \* convertGithubNwoToDatabaseUrl's language
    listing,              \* response.data
    unzipPath,            \* the destination folder's name in the storage root
    archivePath,          \* the temporary archive of this call, 0 when none
    tree,                 \* the listing of the destination folder
    dbPath,               \* what findDirWithFile returned
    treeAtCall,           \* the listing when ensureZippedSourceLocation was entered
    events,               \* what the running call did, in order
    progressLog,          \* the reports the progress callback received
    requested,            \* the locations fetch was called with
    response,             \* what fetch resolved with, NoResponse when nothing
    outcome,              \* "running", "item", "undefined" or "error"
    error,                \* the message of the error the caller received
    thrown,               \* the message of the error as it was first thrown
    zipFile,              \* the path readAndUnzip gave to databaseUnbundle
    normalizeCalls,       \* calls of ensureZippedSourceLocation on the same root
    dir,                  \* the entry findDirWithFile is called on
    wanted,               \* the names findDirWithFile is called with
    imports,              \* the imports running at the same time, by number
    now,                  \* what Date.now() reads
    comparePair,          \* CompareView.comparePair, NoPair when undefined
    panelOpen,            \* whether the panel of the compare view exists
    viewCalls,            \* the calls of showResults and changeTable, by number
    posted,               \* the setComparisons messages posted to the webview
    queryRuns,            \* calls of runQuery started
    queryRun,             \* the locals of the running (or last) call of runQuery
    lockFiles             \* the lock files on disk, by the call that created them

envVars == <<allowHttp, storageDir, storage, tmpFiles, closing>>
managerVars == <<databaseItems, currentDatabaseItem>>
githubVars == <<language, listing>>
fetcherVars == <<databaseUrl, unzipPath, archivePath, zipFile, tree, dbPath, treeAtCall>>
callVars == <<pc, entryPoint, events, progressLog, requested, response, outcome, error,
              thrown>>
\* the state of the harnesses around single functions and of the concurrent imports
viewVars == <<comparePair, panelOpen, viewCalls, posted>>
queryVars == <<queryRuns, queryRun, lockFiles>>
harnessVars == <<normalizeCalls, dir, wanted, imports, now, viewVars, queryVars>>
vars == <<envVars, managerVars, calls, githubVars, fetcherVars, callVars, harnessVars>>

\* comparePair before the first showResults and after the panel was disposed
NoPair == 0

\* the locals of runQuery before it is called
NotRun == [pc |-> "idle", cleanup |-> FALSE, cleaned |-> 0, resultType |-> "", outcome |-> "none"]

\* the compare view not constructed and no query run
OthersIdle ==
    /\ comparePair = NoPair
    /\ panelOpen = FALSE
    /\ viewCalls = <<>>
    /\ posted = <<>>
    /\ queryRuns = 0
    /\ queryRun = NotRun
    /\ lockFiles = {}

\* the first n names getStorageFolder tries for db.zip
Taken(n) == {Candidate(<<"d", "b">>, i) : i \in 0..(n - 1)}

\* the storage root before the first call: missing or empty, the folders of
\* earlier imports with a gap in them, or the names up to the counter's limit
InitialStorages ==
    { Taken(0), Taken(3) \ {Candidate(<<"d", "b">>, 1)}, Taken(MaxCounter) }

Init ==
    /\ allowHttp \in BOOLEAN
    /\ storage \in InitialStorages
    /\ storageDir = (storage # {})
    /\ tmpFiles = {}
    /\ closing = {}
    /\ databaseItems = <<>>
    /\ currentDatabaseItem = 0
    /\ calls = 0
    /\ pc = "idle"
    /\ entryPoint = ""
    /\ databaseUrl = NoUrl
    /\ language = ""
    /\ listing = <<>>
    /\ unzipPath = <<>>
    /\ archivePath = 0
    /\ tree = <<>>
    /\ dbPath = NotFound
    /\ treeAtCall = <<>>
    /\ events = <<>>
    /\ progressLog = <<>>
    /\ requested = {}
    /\ response = NoResponse
    /\ outcome = "undefined"
    /\ error = ""
    /\ thrown = ""
    /\ zipFile = <<>>
    /\ normalizeCalls = 0
    /\ dir = Dir("", <<>>)
    /\ wanted = {}
    /\ imports = <<>>
    /\ now = 0
    /\ OthersIdle

(***************************************************************************)
(* How a call ends, and how one starts.                                    *)
(***************************************************************************)
\* a return turned into a failure
ReturnsAsFailure(value) ==
    /\ pc' = "done"
    /\ outcome' = "error"
    /\ error' = "No value was returned"
    /\ thrown' = "No value was returned"

\* the call returns value ("item" or "undefined") to its caller
Returns(value) ==
    /\ pc' = "done"
    /\ outcome' = value
    /\ error' = ""
    /\ thrown' = ""

\* e is thrown below entry point ep and reaches the caller of ep
Throws(ep, e) ==
    /\ pc' = "done"
    /\ outcome' = "error"
    /\ thrown' = e
    /\ error' = Propagated(ep, e)

\* first is thrown below entry point ep, caught and e thrown in its place
Rethrows(ep, first, e) ==
    /\ pc' = "done"
    /\ outcome' = "error"
    /\ thrown' = first
    /\ error' = Propagated(ep, e)

\* a top-level call can start when none is running
CanStart ==
    /\ pc \in {"idle", "done"}
    /\ calls < MaxCalls

\* the locals of a call that has just started
FreshCall(ep) ==
    /\ calls' = calls + 1
    /\ entryPoint' = ep
    /\ unzipPath' = <<>>
    /\ archivePath' = 0
    /\ tree' = <<>>
    /\ dbPath' = NotFound
    /\ zipFile' = <<>>
    /\ treeAtCall' = <<>>
    /\ requested' = {}
    /\ response' = NoResponse
    /\ UNCHANGED <<envVars, managerVars, harnessVars>>

\* databaseArchiveFetcher up to its first await: the first report and the
\* check of storagePath; log and done are the reports and events so far
FetcherBegin(ep, storagePathGiven, log, done) ==
    /\ progressLog' = Append(log, Report(1, 4))
    /\ events' = done
    /\ IF storagePathGiven
       THEN /\ pc' = "ensureDir"
            /\ outcome' = "running"
            /\ error' = ""
            /\ thrown' = ""
       ELSE Throws(ep, "No storage path specified.")

(***************************************************************************)
(* The entry points.                                                       *)
(***************************************************************************)
\* promptImportInternetDatabase: the input box, validateUrl, the fetcher
promptImportInternetDatabase(input, storagePathGiven) ==
    /\ CanStart
    /\ FreshCall("promptImportInternetDatabase")
    /\ UNCHANGED githubVars
    /\ IF input = NoUrl
       THEN /\ Returns("undefined")
            /\ databaseUrl' = NoUrl
            /\ events' = <<"showInputBox:undefined">>
            /\ progressLog' = <<>>
       ELSE /\ databaseUrl' = input
            /\ IF validateUrl(input, allowHttp) # "ok"
               THEN /\ Throws("promptImportInternetDatabase", validateUrl(input, allowHttp))
                    /\ events' = <<"validateUrl:throw">>
                    /\ progressLog' = <<>>
               ELSE FetcherBegin("promptImportInternetDatabase", storagePathGiven,
                                 <<>>, <<>>)

\* importArchiveDatabase: the fetcher inside the try
importArchiveDatabase(url, storagePathGiven) ==
    /\ CanStart
    /\ FreshCall("importArchiveDatabase")
    /\ UNCHANGED githubVars
    /\ databaseUrl' = url
    /\ FetcherBegin("importArchiveDatabase", storagePathGiven, <<>>, <<>>)

\* downloadGitHubDatabase up to the await of the listing
DownloadBegin(ep, githubRepo, log) ==
    /\ progressLog' = log
    /\ events' = <<>>
    /\ IF isValidGitHubNwo(githubRepo)
       THEN /\ pc' = "listCodeqlDatabases"
            /\ outcome' = "running"
            /\ error' = ""
            /\ thrown' = ""
       ELSE Throws(ep, "Invalid GitHub repository")

\* promptImportGithubDatabase: askForGitHubRepo, then downloadGitHubDatabase
promptImportGithubDatabase(githubRepo, languageArg) ==
    /\ CanStart
    /\ FreshCall("promptImportGithubDatabase")
    /\ databaseUrl' = NoUrl
    /\ language' = languageArg
    /\ listing' = <<>>
    /\ IF githubRepo = ""
       THEN /\ Returns("undefined")
            /\ events' = <<"showInputBox:undefined">>
            /\ progressLog' = <<Report(1, 2)>>
       ELSE DownloadBegin("promptImportGithubDatabase", githubRepo, <<Report(1, 2)>>)

\* downloadGitHubDatabase, called with a repository
downloadGitHubDatabase(githubRepo, languageArg) ==
    /\ CanStart
    /\ FreshCall("downloadGitHubDatabase")
    /\ databaseUrl' = NoUrl
    /\ language' = languageArg
    /\ listing' = <<>>
    /\ DownloadBegin("downloadGitHubDatabase", githubRepo, <<>>)

(***************************************************************************)
(* convertGithubNwoToDatabaseUrl.                                          *)
(***************************************************************************)
UnableToGet == "Unable to get database for 'github/codeql'"

\* e is thrown inside the try of convertGithubNwoToDatabaseUrl: the catch logs
\* it and throws the lookup error in its place, which reaches the caller
ConvertThrows(e) ==
    /\ pc' = "done"
    /\ outcome' = "error"
    /\ thrown' = e
    /\ error' = Propagated(entryPoint, UnableToGet)

\* from the find of the database to the await of octokit.auth()
ResolveDatabase(data, chosen) ==
    /\ language' = chosen
    /\ IF DatabaseForLanguage(data, chosen) = NoEntry
       THEN /\ ConvertThrows("No database found for language")
            /\ databaseUrl' = NoUrl
       ELSE /\ databaseUrl' = DatabaseForLanguage(data, chosen).url
            /\ pc' = "auth"
            /\ UNCHANGED <<outcome, error, thrown>>

\* the argument taken as it is, listed or not
NeedsPromptNever(languageArg, data) == FALSE

\* the prompt asked for whatever the argument
NeedsPromptAlways(languageArg, data) == TRUE

\* !language || !languages.includes(language)
NeedsPrompt(languageArg, data) == languageArg = "" \/ languageArg \notin LanguageSet(data)

\* the listing arrives (or the request fails); promptForLanguage up to the picker
listCodeqlDatabases(ok, data) ==
    /\ pc = "listCodeqlDatabases"
    /\ UNCHANGED <<envVars, managerVars, calls, harnessVars, entryPoint, requested, response,
                   unzipPath, archivePath, zipFile, tree, dbPath, treeAtCall>>
    /\ IF ~ok
       THEN /\ ConvertThrows("listCodeqlDatabases failed")
            /\ UNCHANGED <<language, listing, databaseUrl, progressLog, events>>
       ELSE /\ listing' = data
            /\ IF NeedsPrompt(language, data)
               THEN /\ progressLog' = Append(progressLog, Report(2, 2))
                    /\ IF Len(data) = 0
                       THEN /\ ConvertThrows("No databases found")
                            /\ events' = events \o <<"listCodeqlDatabases", "promptForLanguage">>
                            /\ UNCHANGED <<language, databaseUrl>>
                       ELSE IF Len(data) = 1
                            THEN /\ ResolveDatabase(data, Languages(data)[1])
                                 /\ events' = events \o <<"listCodeqlDatabases",
                                                          "promptForLanguage">>
                            ELSE /\ pc' = "showQuickPick"
                                 /\ events' = events \o <<"listCodeqlDatabases",
                                                          "promptForLanguage", "showQuickPick">>
                                 /\ UNCHANGED <<language, databaseUrl, outcome, error, thrown>>
               ELSE /\ UNCHANGED progressLog
                    /\ events' = Append(events, "listCodeqlDatabases")
                    /\ ResolveDatabase(data, language)

\* the language picker returns; "" is a dismissal
showQuickPick(selected) ==
    /\ pc = "showQuickPick"
    /\ UNCHANGED <<envVars, managerVars, calls, harnessVars, entryPoint, requested, response,
                   unzipPath, archivePath, zipFile, tree, dbPath, treeAtCall, listing,
                   progressLog>>
    /\ IF selected = ""
       THEN /\ Returns("undefined")
            /\ events' = Append(events, "showQuickPick:undefined")
            /\ UNCHANGED <<language, databaseUrl>>
       ELSE /\ ResolveDatabase(listing, selected)
            /\ UNCHANGED events

\* downloadGitHubDatabaseFromUrl: octokit.auth() returns, the fetcher starts
downloadGitHubDatabaseFromUrl(storagePathGiven) ==
    /\ pc = "auth"
    /\ UNCHANGED <<envVars, managerVars, calls, harnessVars, entryPoint, requested, response,
                   fetcherVars>>
    /\ language' = ""
    /\ listing' = <<>>
    /\ FetcherBegin(entryPoint, storagePathGiven, progressLog, events)

(***************************************************************************)
(* databaseArchiveFetcher, readAndUnzip and fetchAndUnzip.                 *)
(***************************************************************************)
\* await ensureDir(storagePath)
ensureDir ==
    /\ pc = "ensureDir"
    /\ storageDir' = TRUE
    /\ events' = Append(events, "ensureDir")
    /\ pc' = "getStorageFolder"
    /\ UNCHANGED <<allowHttp, storage, tmpFiles, closing, managerVars, calls,
                   harnessVars, githubVars, fetcherVars, entryPoint, progressLog,
                   requested, response, outcome, error, thrown>>

\* getStorageFolder returns or throws; then readAndUnzip up to databaseUnbundle
\* for a file, and fetchAndUnzip up to the response of fetch for anything else.
\* The archive is named after Date.now(); calls that follow one another read
\* different times, so the archive is named here by the number of the call.
StorageFolderChosen ==
    /\ pc = "getStorageFolder"
    /\ UNCHANGED <<allowHttp, storageDir, storage, tmpFiles, closing, managerVars, calls,
                   harnessVars, githubVars, databaseUrl, tree, dbPath, treeAtCall,
                   entryPoint>>
    /\ LET chosen == getStorageFolder(storage, databaseUrl)
       IN  IF ~chosen.ok
           THEN /\ Throws(entryPoint, "Could not find a unique name for downloaded database.")
                /\ events' = Append(events, "getStorageFolder:throw")
                /\ UNCHANGED <<unzipPath, archivePath, zipFile, progressLog, requested, response>>
           ELSE /\ unzipPath' = chosen.folder
                /\ UNCHANGED <<outcome, error, thrown>>
                /\ IF isFile(databaseUrl)
                   THEN /\ progressLog' = Append(progressLog, Report(9, 10))
                        /\ events' = Append(events, "getStorageFolder")
                        /\ pc' = "databaseUnbundle"
                        /\ zipFile' = FsPath(databaseUrl)
                        /\ UNCHANGED <<archivePath, requested, response>>
                   ELSE /\ archivePath' = calls
                        /\ UNCHANGED <<zipFile, response>>
                        /\ progressLog' = Append(progressLog, Report(1, 3))
                        /\ requested' = requested \cup {databaseUrl}
                        /\ events' = events \o <<"getStorageFolder", "fetch">>
                        /\ pc' = "fetch"

\* await fetch(...) ends, with a response, a timeout or another error; then
\* checkForFailingResponse, and for a response that is ok createWriteStream
fetchResponse(how, fetched) ==
    /\ pc = "fetch"
    /\ UNCHANGED <<allowHttp, storageDir, storage, closing, managerVars, calls,
                   harnessVars, githubVars, fetcherVars, entryPoint, progressLog, requested>>
    /\ IF how = "response"
       THEN /\ response' = fetched
            /\ LET checked == checkForFailingResponse(fetched, "Error downloading database")
               IN  IF checked.ok
                   THEN /\ tmpFiles' = tmpFiles \cup {archivePath}
                        /\ events' = Append(events, "createWriteStream")
                        /\ pc' = "stream"
                        /\ UNCHANGED <<outcome, error, thrown>>
                   ELSE /\ UNCHANGED tmpFiles
                        /\ events' = Append(events, "fetchAndUnzip:throw")
                        /\ Throws(entryPoint, checked.message)
       ELSE /\ UNCHANGED <<tmpFiles, response>>
            /\ events' = Append(events, "fetchAndUnzip:throw")
            /\ LET e == IF how = "abort" THEN Aborted ELSE "request failed"
               IN  Rethrows(entryPoint, e, RequestError(e))

\* the body is piped to the archive: data events, then finish, an error or a
\* timeout; after finish, readAndUnzip up to databaseUnbundle
streamEnds(how, sizeKnown, received) ==
    /\ pc = "stream"
    /\ UNCHANGED <<allowHttp, storageDir, storage, tmpFiles, managerVars, calls,
                   harnessVars, githubVars, databaseUrl, unzipPath, archivePath, tree,
                   dbPath, treeAtCall, entryPoint, requested, response>>
    /\ IF how = "finish"
       THEN /\ progressLog' = Append(progressLog \o StreamReports(sizeKnown, received),
                                     Report(9, 10))
            /\ events' = Append(events, "finish")
            /\ zipFile' = FsPath(UriFile(ArchiveFile(archivePath)))
            /\ pc' = "databaseUnbundle"
            /\ UNCHANGED <<closing, outcome, error, thrown>>
       ELSE /\ progressLog' = progressLog \o StreamReports(sizeKnown, received)
            /\ UNCHANGED zipFile
            /\ closing' = closing \cup {archivePath}
            /\ events' = events \o <<"close", "fetchAndUnzip:throw">>
            /\ LET e == IF how = "abort" THEN Aborted ELSE "stream failed"
               IN  Rethrows(entryPoint, e, DownloadError(e))

\* the callback of archiveFileStream.close: void remove(archivePath)
closeCallback(made) ==
    /\ made \in closing
    /\ closing' = closing \ {made}
    /\ tmpFiles' = tmpFiles \ {made}
    /\ UNCHANGED <<allowHttp, storageDir, storage, managerVars, calls, harnessVars,
                   githubVars, fetcherVars, callVars>>

\* after databaseUnbundle has returned: fetchAndUnzip goes on to remove the
\* archive, readAndUnzip called by the fetcher goes on to the third report
AfterUnbundle ==
    IF isFile(databaseUrl)
    THEN /\ progressLog' = Append(progressLog, Report(3, 4))
         /\ events' = Append(events, "databaseUnbundle")
         /\ pc' = "findDirWithFile"
    ELSE /\ UNCHANGED progressLog
         /\ events' = events \o <<"databaseUnbundle", "remove:archive">>
         /\ pc' = "removeArchive"

\* after databaseUnbundle has thrown e: nothing in fetchAndUnzip catches it
UnbundleThrows(e) ==
    /\ UNCHANGED progressLog
    /\ events' = IF isFile(databaseUrl)
                 THEN Append(events, "databaseUnbundle:throw")
                 ELSE events \o <<"databaseUnbundle:throw", "fetchAndUnzip:throw">>
    /\ Throws(entryPoint, e)

\* cli.databaseUnbundle ends: the archive is unpacked into the destination
\* folder, or it fails, with or without the folder left behind
databaseUnbundle(ok, content, e, folderLeft) ==
    /\ pc = "databaseUnbundle"
    /\ UNCHANGED <<allowHttp, storageDir, tmpFiles, closing, managerVars, calls,
                   harnessVars, githubVars, databaseUrl, unzipPath, archivePath, zipFile, dbPath,
                   treeAtCall, entryPoint, requested, response>>
    /\ IF ok
       THEN /\ storage' = storage \cup {unzipPath}
            /\ tree' = content
            /\ AfterUnbundle
            /\ UNCHANGED <<outcome, error, thrown>>
       ELSE /\ storage' = IF folderLeft THEN storage \cup {unzipPath} ELSE storage
            /\ UNCHANGED tree
            /\ UnbundleThrows(e)

\* await remove(archivePath) ends; the fetcher's third report follows
removeArchive(ok) ==
    /\ pc = "removeArchive"
    /\ UNCHANGED <<allowHttp, storageDir, storage, closing, managerVars, calls,
                   harnessVars, githubVars, fetcherVars, entryPoint, requested, response>>
    /\ IF ok
       THEN /\ tmpFiles' = tmpFiles \ {archivePath}
            /\ progressLog' = Append(progressLog, Report(3, 4))
            /\ events' = Append(events, "fetchAndUnzip:return")
            /\ pc' = "findDirWithFile"
            /\ UNCHANGED <<outcome, error, thrown>>
       ELSE /\ UNCHANGED <<tmpFiles, progressLog>>
            /\ events' = Append(events, "fetchAndUnzip:throw")
            /\ Throws(entryPoint, "remove failed")

\* the else branch left out: the fetcher goes on without a database path
NotFoundIgnored ==
    /\ UNCHANGED <<progressLog, treeAtCall, outcome, error, thrown>>
    /\ events' = Append(events, "findDirWithFile:undefined")
    /\ pc' = "ensured"

\* the else branch returning nothing instead of throwing
NotFoundReturnsNothing ==
    /\ UNCHANGED <<progressLog, treeAtCall>>
    /\ events' = Append(events, "findDirWithFile:undefined")
    /\ Returns("undefined")

\* dbPath is undefined: throw new Error("Database not found in archive.")
NotFoundInArchive ==
    /\ UNCHANGED <<progressLog, treeAtCall>>
    /\ events' = Append(events, "findDirWithFile:undefined")
    /\ Throws(entryPoint, "Database not found in archive.")

\* findDirWithFile(unzipPath, ".dbinfo", "codeql-database.yml") returns
FindDatabase ==
    /\ pc = "findDirWithFile"
    /\ UNCHANGED <<envVars, managerVars, calls, harnessVars, githubVars, databaseUrl,
                   unzipPath, archivePath, zipFile, tree, entryPoint, requested, response>>
    /\ LET found == findDirWithFile(Dir("", tree), <<>>, Markers)
       IN  /\ dbPath' = found
           /\ IF found.found
              THEN /\ progressLog' = Append(progressLog, Report(4, 4))
                   /\ events' = Append(events, "findDirWithFile")
                   /\ treeAtCall' = tree
                   /\ pc' = "ensureZippedSourceLocation"
                   /\ UNCHANGED <<outcome, error, thrown>>
              ELSE NotFoundInArchive

(***************************************************************************)
(* ensureZippedSourceLocation(databasePath), databasePath being dbPath.    *)
(***************************************************************************)
\* the listing of the database root
RootListing(listing_) == ChildrenAt(listing_, dbPath.path)
RootNames(listing_) == NameSet(RootListing(listing_))

\* the check without its second half: an existing src.zip is written over
NeedsZipWhenSrc(names) == "src" \in names

\* (await pathExists(srcFolderPath)) && !(await pathExists(srcZipPath))
NeedsZip(names) == "src" \in names /\ "src.zip" \notin names

\* zip(srcFolderPath, srcZipPath): src.zip holds the entries of src
ZipOf(children) ==
    [name |-> "src.zip", kind |-> "file", data |-> "zip",
     children |-> children[IndexOf(children, "src")].children]

\* the database root after zip has written src.zip
AfterZip(children) == Append(Without(children, "src.zip"), ZipOf(children))

\* the database root after a zip that failed part way
AfterFailedZip(children) == Append(Without(children, "src.zip"), File("src.zip", "partial"))

\* remove left out: the loose folder stays
AfterRemoveKept(children) == children

\* remove given the path of the zip instead of the folder
AfterRemoveOfZip(children) == Without(children, "src.zip")

\* the database root after remove(srcFolderPath)
AfterRemove(children) == Without(children, "src")

\* the two pathExists calls return
sourceLocationChecked ==
    /\ pc = "ensureZippedSourceLocation"
    /\ IF NeedsZip(RootNames(tree))
       THEN /\ pc' = "zip"
            /\ UNCHANGED events
       ELSE /\ pc' = "ensured"
            /\ events' = Append(events, "ensureZippedSourceLocation")
    /\ UNCHANGED <<envVars, managerVars, calls, harnessVars, githubVars, fetcherVars,
                   entryPoint, progressLog, requested, response, outcome, error, thrown>>

\* the failure of zip not waited for: remove follows whatever zip did
zipEndsUnawaited(ok, partial) ==
    /\ pc = "zip"
    /\ UNCHANGED <<envVars, managerVars, calls, harnessVars, githubVars, databaseUrl,
                   unzipPath, archivePath, zipFile, dbPath, treeAtCall, entryPoint, progressLog,
                   requested, response, outcome, error, thrown>>
    /\ tree' = IF ok THEN ReplaceAt(tree, dbPath.path, AfterZip(RootListing(tree)))
               ELSE IF partial
                    THEN ReplaceAt(tree, dbPath.path, AfterFailedZip(RootListing(tree)))
                    ELSE tree
    /\ events' = Append(events, IF ok THEN "zip" ELSE "zip:throw")
    /\ pc' = "remove"

\* await zip(...) ends
zipEnds(ok, partial) ==
    /\ pc = "zip"
    /\ UNCHANGED <<envVars, managerVars, calls, harnessVars, githubVars, databaseUrl,
                   unzipPath, archivePath, zipFile, dbPath, treeAtCall, entryPoint, progressLog,
                   requested, response>>
    /\ IF ok
       THEN /\ tree' = ReplaceAt(tree, dbPath.path, AfterZip(RootListing(tree)))
            /\ events' = Append(events, "zip")
            /\ pc' = "remove"
            /\ UNCHANGED <<outcome, error, thrown>>
       ELSE /\ tree' = IF partial
                       THEN ReplaceAt(tree, dbPath.path, AfterFailedZip(RootListing(tree)))
                       ELSE tree
            /\ events' = Append(events, "zip:throw")
            /\ Throws(entryPoint, "zip failed")

\* await remove(srcFolderPath) ends
removeEnds(ok) ==
    /\ pc = "remove"
    /\ UNCHANGED <<envVars, managerVars, calls, harnessVars, githubVars, databaseUrl,
                   unzipPath, archivePath, zipFile, dbPath, treeAtCall, entryPoint, progressLog,
                   requested, response>>
    /\ IF ok
       THEN /\ tree' = ReplaceAt(tree, dbPath.path, AfterRemove(RootListing(tree)))
            /\ events' = events \o <<"remove:src", "ensureZippedSourceLocation">>
            /\ pc' = "ensured"
            /\ UNCHANGED <<outcome, error, thrown>>
       ELSE /\ UNCHANGED tree
            /\ events' = Append(events, "remove:throw")
            /\ Throws(entryPoint, "remove failed")

\* openDatabase given the folder of the unpacked archive, not the database
\* root found in it
openDatabaseOfUnzipPath(ok) ==
    /\ pc = "ensured"
    /\ UNCHANGED <<envVars, calls, harnessVars, githubVars, fetcherVars, entryPoint,
                   progressLog, requested, response>>
    /\ IF ok
       THEN /\ databaseItems' = Append(databaseItems,
                                       [folder |-> unzipPath, path |-> <<>>])
            /\ currentDatabaseItem' = Len(databaseItems) + 1
            /\ events' = Append(events, "openDatabase")
            /\ Returns("item")
       ELSE /\ UNCHANGED managerVars
            /\ events' = Append(events, "openDatabase:throw")
            /\ Throws(entryPoint, "openDatabase failed")

\* databaseManager.openDatabase ends; the item is returned to the caller
openDatabase(ok) ==
    /\ pc = "ensured"
    /\ UNCHANGED <<envVars, calls, harnessVars, githubVars, fetcherVars, entryPoint,
                   progressLog, requested, response>>
    /\ IF ok
       THEN /\ databaseItems' = Append(databaseItems,
                                       [folder |-> unzipPath, path |-> dbPath.path])
            /\ currentDatabaseItem' = Len(databaseItems) + 1
            /\ events' = Append(events, "openDatabase")
            /\ Returns("item")
       ELSE /\ UNCHANGED managerVars
            /\ events' = Append(events, "openDatabase:throw")
            /\ Throws(entryPoint, "openDatabase failed")

(***************************************************************************)
(* The import pipeline.                                                    *)
(***************************************************************************)
Next ==
    \/ \E input \in Urls \cup {NoUrl}, given \in BOOLEAN :
          promptImportInternetDatabase(input, given)
    \/ \E url \in Urls, given \in BOOLEAN : importArchiveDatabase(url, given)
    \/ \E repo \in Repos, arg \in LanguageArgs : promptImportGithubDatabase(repo, arg)
    \/ \E repo \in Repos, arg \in LanguageArgs : downloadGitHubDatabase(repo, arg)
    \/ \E ok \in BOOLEAN, data \in Listings : listCodeqlDatabases(ok, data)
    \/ \E selected \in LanguageSet(listing) \cup {""} : showQuickPick(selected)
    \/ \E given \in BOOLEAN : downloadGitHubDatabaseFromUrl(given)
    \/ ensureDir
    \/ StorageFolderChosen
    \/ \E how \in {"response", "abort", "error"}, fetched \in Responses :
          fetchResponse(how, fetched)
    \/ \E how \in {"finish", "error", "abort"}, known \in BOOLEAN,
          received \in BOOLEAN : streamEnds(how, known, received)
    \/ \E made \in 1..MaxCalls : closeCallback(made)
    \/ \E ok \in BOOLEAN, content \in Archives, e \in {UnexpectedEof, "unbundle failed"},
          left \in BOOLEAN : databaseUnbundle(ok, content, e, left)
    \/ \E ok \in BOOLEAN : removeArchive(ok)
    \/ FindDatabase
    \/ sourceLocationChecked
    \/ \E ok \in BOOLEAN, partial \in BOOLEAN : zipEnds(ok, partial)
    \/ \E ok \in BOOLEAN : removeEnds(ok)
    \/ \E ok \in BOOLEAN : openDatabase(ok)

Spec == Init /\ [][Next]_vars

(***************************************************************************)
(* ensureZippedSourceLocation called again and again on one database root. *)
(* normalizeCalls counts the calls that have returned normally.            *)
(***************************************************************************)
SrcChoices == {<<>>, <<LooseSrc>>, <<Dir("src", <<>>)>>}
ZipChoices == {<<>>, <<PackedSrc>>}

\* the listings of a database root: a marker, with or without src and src.zip
RootListings ==
    {<<File(m, "info")>> \o src \o zipped : m \in Markers, src \in SrcChoices, zipped \in ZipChoices}

\* the database at the top of the unpacked folder, or one folder down
NormalizeTrees == RootListings \cup {<<Dir("db", root)>> : root \in RootListings}

InitNormalize ==
    /\ allowHttp = FALSE
    /\ storage = {<<"d", "b">>}
    /\ storageDir = TRUE
    /\ tmpFiles = {}
    /\ closing = {}
    /\ databaseItems = <<>>
    /\ currentDatabaseItem = 0
    /\ calls = 0
    /\ pc = "harness"
    /\ entryPoint = "ensureZippedSourceLocation"
    /\ databaseUrl = FileDbZip
    /\ language = ""
    /\ listing = <<>>
    /\ unzipPath = <<"d", "b">>
    /\ archivePath = 0
    /\ tree \in NormalizeTrees
    /\ dbPath = findDirWithFile(Dir("", tree), <<>>, Markers)
    /\ treeAtCall = tree
    /\ events = <<>>
    /\ progressLog = <<>>
    /\ requested = {}
    /\ response = NoResponse
    /\ outcome = "undefined"
    /\ error = ""
    /\ thrown = ""
    /\ zipFile = <<>>
    /\ normalizeCalls = 0
    /\ dir = Dir("", <<>>)
    /\ wanted = {}
    /\ imports = <<>>
    /\ now = 0
    /\ OthersIdle

\* ensureZippedSourceLocation(dbPath) is called
normalizeCall ==
    /\ pc \in {"harness", "done"}
    /\ normalizeCalls < MaxNormalizeCalls
    /\ pc' = "ensureZippedSourceLocation"
    /\ treeAtCall' = tree
    /\ events' = <<>>
    /\ outcome' = "running"
    /\ error' = ""
    /\ thrown' = ""
    /\ UNCHANGED <<envVars, managerVars, calls, harnessVars, githubVars, databaseUrl,
                   unzipPath, archivePath, zipFile, tree, dbPath, entryPoint, progressLog, requested, response>>

\* the call returns normally
normalizeReturn ==
    /\ pc = "ensured"
    /\ pc' = "harness"
    /\ normalizeCalls' = normalizeCalls + 1
    /\ outcome' = "undefined"
    /\ UNCHANGED <<envVars, managerVars, calls, githubVars, fetcherVars, entryPoint, events,
                   progressLog, requested, response, error, thrown, dir, wanted, imports, now,
                   viewVars, queryVars>>

NextNormalize ==
    \/ normalizeCall
    \/ sourceLocationChecked
    \/ \E ok \in BOOLEAN, partial \in BOOLEAN : zipEnds(ok, partial)
    \/ \E ok \in BOOLEAN : removeEnds(ok)
    \/ normalizeReturn

SpecNormalize == InitNormalize /\ [][NextNormalize]_vars

(***************************************************************************)
(* findDirWithFile called on a directory tree of its own.  The listing of  *)
(* the root is any arrangement of at most MaxEntries of the entries below. *)
(***************************************************************************)
MaxEntries == 3

\* what a listing can hold: files with and without the name of a marker,
\* directories without a marker, with one, and with one further down
LocateEntries ==
    { File(".dbinfo", "info"),
      File("readme", "text"),
      Dir("a", <<File("x", "text")>>),
      Dir("b", <<File("readme", "text"), File("codeql-database.yml", "yml")>>),
      Dir("c", <<File("x", "text"), Dir("d", <<File(".dbinfo", "info")>>)>>),
      Dir("e", <<Dir("codeql-database.yml", <<>>)>>) }

\* the listings readdir can return: entries with different names, in any order
LocateListings ==
    UNION { { s \in [1..n -> LocateEntries] :
                \A i, j \in 1..n : s[i].name = s[j].name => i = j } : n \in 0..MaxEntries }

\* what findDirWithFile is called on: a directory, or something that is none
LocateRoots == {Dir("", l) : l \in LocateListings} \cup {File("", "text")}

\* ...toFind
LocateNames == {{".dbinfo"}, {"codeql-database.yml"}, Markers}

InitLocate ==
    /\ allowHttp = FALSE
    /\ storage = {}
    /\ storageDir = FALSE
    /\ tmpFiles = {}
    /\ closing = {}
    /\ databaseItems = <<>>
    /\ currentDatabaseItem = 0
    /\ calls = 0
    /\ pc = "harness"
    /\ entryPoint = "findDirWithFile"
    /\ databaseUrl = NoUrl
    /\ language = ""
    /\ listing = <<>>
    /\ unzipPath = <<>>
    /\ archivePath = 0
    /\ zipFile = <<>>
    /\ tree = <<>>
    /\ dbPath = NotFound
    /\ treeAtCall = <<>>
    /\ events = <<>>
    /\ progressLog = <<>>
    /\ requested = {}
    /\ response = NoResponse
    /\ outcome = "running"
    /\ error = ""
    /\ thrown = ""
    /\ normalizeCalls = 0
    /\ dir \in LocateRoots
    /\ wanted \in LocateNames
    /\ imports = <<>>
    /\ now = 0
    /\ OthersIdle

\* findDirWithFile(dir, ...toFind) returns
locateReturn ==
    /\ pc = "harness"
    /\ dbPath' = findDirWithFile(dir, <<>>, wanted)
    /\ pc' = "done"
    /\ outcome' = IF dbPath'.found THEN "item" ELSE "undefined"
    /\ UNCHANGED <<envVars, managerVars, calls, githubVars, databaseUrl, unzipPath,
                   archivePath, zipFile, tree, treeAtCall, entryPoint, events, progressLog,
                   requested, response, error, thrown, harnessVars>>

NextLocate == locateReturn

SpecLocate == InitLocate /\ [][NextLocate]_vars

(***************************************************************************)
(* Imports running at the same time: databaseArchiveFetcher entered by     *)
(* several callers, each cut at its awaits, getStorageFolder at each of    *)
(* its pathExists.  imports[i] holds the locals of the i-th import.  What  *)
(* follows the unpacking and the removal of the archive (findDirWithFile,  *)
(* ensureZippedSourceLocation, openDatabase) works inside the unpacked     *)
(* folder and is one step here.                                            *)
(***************************************************************************)
MaxImports == 2
\* how far the clock read by Date.now() advances
MaxTicks == 1

Importers == 1..MaxImports

\* the locals of an import that has not been called
NotCalled ==
    [pc |-> "idle", databaseUrl |-> NoUrl, folderName |-> <<>>, counter |-> 0,
     unzipPath |-> <<>>, seen |-> {}, archivePath |-> 0, fetching |-> FALSE,
     outcome |-> "undefined"]

InitConcurrent ==
    /\ allowHttp = FALSE
    /\ storage \in {Taken(0), Taken(1)}
    /\ storageDir = (storage # {})
    /\ tmpFiles = {}
    /\ closing = {}
    /\ databaseItems = <<>>
    /\ currentDatabaseItem = 0
    /\ calls = 0
    /\ pc = "harness"
    /\ entryPoint = "databaseArchiveFetcher"
    /\ databaseUrl = NoUrl
    /\ language = ""
    /\ listing = <<>>
    /\ unzipPath = <<>>
    /\ archivePath = 0
    /\ zipFile = <<>>
    /\ tree = <<>>
    /\ dbPath = NotFound
    /\ treeAtCall = <<>>
    /\ events = <<>>
    /\ progressLog = <<>>
    /\ requested = {}
    /\ response = NoResponse
    /\ outcome = "running"
    /\ error = ""
    /\ thrown = ""
    /\ normalizeCalls = 0
    /\ dir = Dir("", <<>>)
    /\ wanted = {}
    /\ imports = [i \in Importers |-> NotCalled]
    /\ now = 1
    /\ OthersIdle

\* what the concurrent imports leave alone
sequentialVars ==
    <<allowHttp, managerVars, calls, githubVars, fetcherVars, callVars, normalizeCalls, dir,
      wanted, viewVars, queryVars>>

\* the clock advances
tick ==
    /\ now < 1 + MaxTicks
    /\ now' = now + 1
    /\ UNCHANGED <<sequentialVars, storageDir, storage, tmpFiles, closing, imports>>

\* databaseArchiveFetcher is called: the first report, up to await ensureDir
fetcherCalled(i, url) ==
    /\ imports[i].pc = "idle"
    /\ imports' = [imports EXCEPT ![i] = [NotCalled EXCEPT !.pc = "ensureDir",
                                                           !.databaseUrl = url,
                                                           !.outcome = "running"]]
    /\ UNCHANGED <<sequentialVars, storageDir, storage, tmpFiles, closing, now>>

\* await ensureDir(storagePath) ends; getStorageFolder up to await fs_realpath
ensureDirEnds(i) ==
    /\ imports[i].pc = "ensureDir"
    /\ storageDir' = TRUE
    /\ imports' = [imports EXCEPT ![i].pc = "realpath"]
    /\ UNCHANGED <<sequentialVars, storage, tmpFiles, closing, now>>

\* await fs_realpath ends: folderName and counter are set and the first
\* pathExists is awaited
realpathEnds(i) ==
    /\ imports[i].pc = "realpath"
    /\ imports' = [imports EXCEPT ![i].pc = "pathExists",
                                  ![i].folderName = LastName(imports[i].databaseUrl),
                                  ![i].counter = 0]
    /\ UNCHANGED <<sequentialVars, storageDir, storage, tmpFiles, closing, now>>

\* the existence check left out of the loop
pathExistsEndsUnchecked(i) ==
    /\ imports[i].pc = "pathExists"
    /\ imports' = [imports EXCEPT ![i].pc = "databaseUnbundle",
                                  ![i].unzipPath = imports[i].folderName,
                                  ![i].seen = storage]
    /\ UNCHANGED <<sequentialVars, storageDir, storage, tmpFiles, closing, now>>

\* await pathExists(folderName) ends: one turn of the while loop, or the
\* return of getStorageFolder and then readAndUnzip up to databaseUnbundle or
\* fetchAndUnzip up to the response of fetch
pathExistsEnds(i) ==
    /\ imports[i].pc = "pathExists"
    /\ LET import == imports[i]
       IN  IF pathExists(storage, import.folderName)
           THEN IF import.counter + 1 > MaxCounter
                THEN imports' = [imports EXCEPT ![i].pc = "done",
                                                ![i].counter = import.counter + 1,
                                                ![i].outcome = "error"]
                ELSE imports' = [imports EXCEPT
                                   ![i].counter = import.counter + 1,
                                   ![i].folderName =
                                       Candidate(LastName(import.databaseUrl),
                                                 import.counter + 1)]
           ELSE IF isFile(import.databaseUrl)
                THEN imports' = [imports EXCEPT ![i].pc = "databaseUnbundle",
                                                ![i].unzipPath = import.folderName,
                                                ![i].seen = storage]
                ELSE imports' = [imports EXCEPT ![i].pc = "fetch",
                                                ![i].unzipPath = import.folderName,
                                                ![i].seen = storage,
                                                ![i].archivePath = now,
                                                ![i].fetching = TRUE]
    /\ UNCHANGED <<sequentialVars, storageDir, storage, tmpFiles, closing, now>>

\* await fetch(...) and checkForFailingResponse end; createWriteStream
fetchEnds(i, ok) ==
    /\ imports[i].pc = "fetch"
    /\ IF ok
       THEN /\ tmpFiles' = tmpFiles \cup {imports[i].archivePath}
            /\ imports' = [imports EXCEPT ![i].pc = "stream"]
       ELSE /\ UNCHANGED tmpFiles
            /\ imports' = [imports EXCEPT ![i].pc = "done", ![i].fetching = FALSE,
                                          ![i].outcome = "error"]
    /\ UNCHANGED <<sequentialVars, storageDir, storage, closing, now>>

\* the pipe to the archive finishes or fails
pipeEnds(i, ok) ==
    /\ imports[i].pc = "stream"
    /\ IF ok
       THEN /\ imports' = [imports EXCEPT ![i].pc = "databaseUnbundle"]
            /\ UNCHANGED closing
       ELSE /\ closing' = closing \cup {imports[i].archivePath}
            /\ imports' = [imports EXCEPT ![i].pc = "done", ![i].fetching = FALSE,
                                          ![i].outcome = "error"]
    /\ UNCHANGED <<sequentialVars, storageDir, storage, tmpFiles, now>>

\* the callback of archiveFileStream.close: void remove(archivePath)
closeEnds(made) ==
    /\ made \in closing
    /\ closing' = closing \ {made}
    /\ tmpFiles' = tmpFiles \ {made}
    /\ UNCHANGED <<sequentialVars, storageDir, storage, imports, now>>

\* await cli.databaseUnbundle(zipFile, unzipPath) ends
unbundleEnds(i, ok) ==
    /\ imports[i].pc = "databaseUnbundle"
    /\ IF ok
       THEN /\ storage' = storage \cup {imports[i].unzipPath}
            /\ imports' = [imports EXCEPT
                              ![i].pc = IF imports[i].fetching THEN "removeArchive"
                                        ELSE "unpacked"]
       ELSE /\ UNCHANGED storage
            /\ imports' = [imports EXCEPT ![i].pc = "done", ![i].fetching = FALSE,
                                          ![i].outcome = "error"]
    /\ UNCHANGED <<sequentialVars, storageDir, tmpFiles, closing, now>>

\* await remove(archivePath) ends; fetchAndUnzip returns
removeArchiveEnds(i) ==
    /\ imports[i].pc = "removeArchive"
    /\ tmpFiles' = tmpFiles \ {imports[i].archivePath}
    /\ imports' = [imports EXCEPT ![i].pc = "unpacked", ![i].fetching = FALSE]
    /\ UNCHANGED <<sequentialVars, storageDir, storage, closing, now>>

\* findDirWithFile, ensureZippedSourceLocation and openDatabase end
fetcherEnds(i, ok) ==
    /\ imports[i].pc = "unpacked"
    /\ imports' = [imports EXCEPT ![i].pc = "done",
                                  ![i].outcome = IF ok THEN "item" ELSE "error"]
    /\ UNCHANGED <<sequentialVars, storageDir, storage, tmpFiles, closing, now>>

NextConcurrent ==
    \/ tick
    \/ \E i \in Importers, url \in {HttpsDbZip, FileDbZip} : fetcherCalled(i, url)
    \/ \E i \in Importers : ensureDirEnds(i)
    \/ \E i \in Importers : realpathEnds(i)
    \/ \E i \in Importers : pathExistsEnds(i)
    \/ \E i \in Importers, ok \in BOOLEAN : fetchEnds(i, ok)
    \/ \E i \in Importers, ok \in BOOLEAN : pipeEnds(i, ok)
    \/ \E made \in 1..(1 + MaxTicks) : closeEnds(made)
    \/ \E i \in Importers, ok \in BOOLEAN : unbundleEnds(i, ok)
    \/ \E i \in Importers : removeArchiveEnds(i)
    \/ \E i \in Importers, ok \in BOOLEAN : fetcherEnds(i, ok)

SpecConcurrent == InitConcurrent /\ [][NextConcurrent]_vars

(***************************************************************************)
(* getStorageFolder called for archives with long names: the base name is  *)
(* a run of MaxNameLength - 6 to MaxStemLength letters and an ending, and  *)
(* the storage root holds the first few names the loop tries.              *)
(***************************************************************************)
MaxStemLength == 252

\* n letters
Stem(n) == [i \in 1..n |-> "a"]

\* how the base name of an archive ends
Endings == {<<>>, DotZip, DotZip \o DotZip, <<".", "z">>}

LongNames ==
    {Stem(n) \o ending : n \in (MaxNameLength - 6)..MaxStemLength, ending \in Endings}

\* the locations of the archives, remote and local
LongUrls == {[scheme |-> scheme, path |-> <<name>>] : scheme \in {"https", "file"},
                                                      name \in LongNames}

\* how many of the names the loop tries exist already
Collisions == {0, 1, 10, MaxCounter, MaxCounter + 1}

InitName ==
    /\ allowHttp = FALSE
    /\ databaseUrl \in LongUrls
    /\ \E n \in Collisions : storage = {Candidate(LastName(databaseUrl), i) : i \in 0..(n - 1)}
    /\ storageDir = TRUE
    /\ tmpFiles = {}
    /\ closing = {}
    /\ databaseItems = <<>>
    /\ currentDatabaseItem = 0
    /\ calls = 1
    /\ pc = "getStorageFolder"
    /\ entryPoint = "importArchiveDatabase"
    /\ language = ""
    /\ listing = <<>>
    /\ unzipPath = <<>>
    /\ archivePath = 0
    /\ zipFile = <<>>
    /\ tree = <<>>
    /\ dbPath = NotFound
    /\ treeAtCall = <<>>
    /\ events = <<"ensureDir">>
    /\ progressLog = <<Report(1, 4)>>
    /\ requested = {}
    /\ response = NoResponse
    /\ outcome = "running"
    /\ error = ""
    /\ thrown = ""
    /\ normalizeCalls = 0
    /\ dir = Dir("", <<>>)
    /\ wanted = {}
    /\ imports = <<>>
    /\ now = 0
    /\ OthersIdle

NextName == StorageFolderChosen

SpecName == InitName /\ [][NextName]_vars

(***************************************************************************)
(* CompareView.  showResults and the changeCompare message both run        *)
(* showResultsInternal, which is cut at its awaits: getPanel, the load of  *)
(* the panel, the decoding of the result sets, the post of the message.    *)
(* A pair of queries is a number; viewCalls[i] holds the locals of the     *)
(* i-th call.                                                              *)
(***************************************************************************)
MaxViewCalls == 2
MaxPairs == 2

ViewCallers == 1..MaxViewCalls
Pairs == 1..MaxPairs

\* the import pipeline and the harnesses at rest
PipelineIdle ==
    /\ allowHttp = FALSE
    /\ storage = {}
    /\ storageDir = FALSE
    /\ tmpFiles = {}
    /\ closing = {}
    /\ databaseItems = <<>>
    /\ currentDatabaseItem = 0
    /\ calls = 0
    /\ pc = "harness"
    /\ databaseUrl = NoUrl
    /\ language = ""
    /\ listing = <<>>
    /\ unzipPath = <<>>
    /\ archivePath = 0
    /\ zipFile = <<>>
    /\ tree = <<>>
    /\ dbPath = NotFound
    /\ treeAtCall = <<>>
    /\ events = <<>>
    /\ progressLog = <<>>
    /\ requested = {}
    /\ response = NoResponse
    /\ outcome = "running"
    /\ error = ""
    /\ thrown = ""
    /\ normalizeCalls = 0
    /\ dir = Dir("", <<>>)
    /\ wanted = {}
    /\ imports = <<>>
    /\ now = 0

\* the locals of a call that has not been made
NotShown == [pc |-> "idle", pair |-> NoPair, outcome |-> "none"]

InitCompare ==
    /\ PipelineIdle
    /\ entryPoint = "CompareView"
    /\ comparePair = NoPair
    /\ panelOpen = FALSE
    /\ viewCalls = [i \in ViewCallers |-> NotShown]
    /\ posted = <<>>
    /\ queryRuns = 0
    /\ queryRun = NotRun
    /\ lockFiles = {}

\* what the compare view leaves alone
besideViewVars ==
    <<envVars, managerVars, calls, githubVars, fetcherVars, callVars, normalizeCalls, dir,
      wanted, imports, now, queryVars>>

\* showResultsInternal up to await this.getPanel(): it returns at once when
\* there is no pair, and keeps the pair it found in from and to
showResultsInternal(i, pair) ==
    IF pair = NoPair
    THEN viewCalls' = [viewCalls EXCEPT ![i] = [pc |-> "done", pair |-> NoPair,
                                                 outcome |-> "returned"]]
    ELSE viewCalls' = [viewCalls EXCEPT ![i] = [pc |-> "getPanel", pair |-> pair,
                                                 outcome |-> "running"]]

\* showResults(from, to): the pair is stored, then showResultsInternal
showResults(i, pair) ==
    /\ viewCalls[i].pc = "idle"
    /\ comparePair' = pair
    /\ showResultsInternal(i, pair)
    /\ UNCHANGED <<besideViewVars, panelOpen, posted>>

\* the webview sends changeCompare: changeTable, then showResultsInternal
changeTable(i) ==
    /\ viewCalls[i].pc = "idle"
    /\ panelOpen
    /\ showResultsInternal(i, comparePair)
    /\ UNCHANGED <<besideViewVars, comparePair, panelOpen, posted>>

\* await this.getPanel() ends; panel.reveal
getPanelEnds(i) ==
    /\ viewCalls[i].pc = "getPanel"
    /\ panelOpen' = TRUE
    /\ viewCalls' = [viewCalls EXCEPT ![i].pc = "waitForPanelLoaded"]
    /\ UNCHANGED <<besideViewVars, comparePair, posted>>

\* await this.waitForPanelLoaded() ends
panelLoaded(i) ==
    /\ viewCalls[i].pc = "waitForPanelLoaded"
    /\ viewCalls' = [viewCalls EXCEPT ![i].pc = "findCommonResultSetNames"]
    /\ UNCHANGED <<besideViewVars, comparePair, panelOpen, posted>>

\* the setComparisons message: the pair it was computed from, and rows or
\* message as the try around compareResults left them
SetComparisons(pair, diffThrows) ==
    [t |-> "setComparisons", pair |-> pair,
     rows |-> IF diffThrows THEN "undefined" ELSE "rows",
     message |-> IF diffThrows THEN "resultsDiff failed" ELSE "undefined"]

\* await this.findCommonResultSetNames(...) ends: it throws, or there is no
\* current result set, or the result sets are compared and the message posted
resultSetsFound(i, how, diffThrows) ==
    /\ viewCalls[i].pc = "findCommonResultSetNames"
    /\ IF how = "throw"
       THEN /\ viewCalls' = [viewCalls EXCEPT ![i].pc = "done", ![i].outcome = "error"]
            /\ UNCHANGED posted
       ELSE IF how = "none"
            THEN /\ viewCalls' = [viewCalls EXCEPT ![i].pc = "done",
                                                   ![i].outcome = "returned"]
                 /\ UNCHANGED posted
            ELSE /\ posted' = Append(posted, SetComparisons(viewCalls[i].pair, diffThrows))
                 /\ viewCalls' = [viewCalls EXCEPT ![i].pc = "postMessage"]
    /\ UNCHANGED <<besideViewVars, comparePair, panelOpen>>

\* await this.postMessage(...) ends
postMessageEnds(i, ok) ==
    /\ viewCalls[i].pc = "postMessage"
    /\ viewCalls' = [viewCalls EXCEPT ![i].pc = "done",
                                      ![i].outcome = IF ok THEN "returned" ELSE "error"]
    /\ UNCHANGED <<besideViewVars, comparePair, panelOpen, posted>>

\* onPanelDispose: the user closes the panel
onPanelDispose ==
    /\ panelOpen
    /\ panelOpen' = FALSE
    /\ comparePair' = NoPair
    /\ UNCHANGED <<besideViewVars, viewCalls, posted>>

NextCompare ==
    \/ \E i \in ViewCallers, pair \in Pairs : showResults(i, pair)
    \/ \E i \in ViewCallers : changeTable(i)
    \/ \E i \in ViewCallers : getPanelEnds(i)
    \/ \E i \in ViewCallers : panelLoaded(i)
    \/ \E i \in ViewCallers, how \in {"throw", "none", "found"}, diffThrows \in BOOLEAN :
          resultSetsFound(i, how, diffThrows)
    \/ \E i \in ViewCallers, ok \in BOOLEAN : postMessageEnds(i, ok)
    \/ onPanelDispose

SpecCompare == InitCompare /\ [][NextCompare]_vars

(***************************************************************************)
(* runQuery, cut at its awaits: createLockFileForStandardQuery, evaluate   *)
(* and the cleanup of the lock file.  Calls follow one another; lockFiles  *)
(* holds the lock files that are on disk.                                  *)
(***************************************************************************)
MaxQueryRuns == 3

\* completedQuery.resultType
ResultTypes == {"SUCCESS", "OTHER_ERROR", "COMPILATION_ERROR", "OOM", "CANCELLATION"}

InitRunQuery ==
    /\ PipelineIdle
    /\ entryPoint = "runQuery"
    /\ OthersIdle

\* what runQuery leaves alone
besideQueryVars ==
    <<envVars, managerVars, calls, githubVars, fetcherVars, callVars, normalizeCalls, dir,
      wanted, imports, now, viewVars>>

\* runQuery is called, up to await createLockFileForStandardQuery
runQuery ==
    /\ queryRun.pc \in {"idle", "done"}
    /\ queryRuns < MaxQueryRuns
    /\ queryRuns' = queryRuns + 1
    /\ queryRun' = [NotRun EXCEPT !.pc = "createLockFile", !.outcome = "running"]
    /\ UNCHANGED <<besideQueryVars, lockFiles>>

\* await createLockFileForStandardQuery ends: a lock file and its cleanup, no
\* lock file and no cleanup, or an error; then createQueryRun and evaluate
lockFileCreated(how) ==
    /\ queryRun.pc = "createLockFile"
    /\ IF how = "throw"
       THEN /\ queryRun' = [queryRun EXCEPT !.pc = "done", !.outcome = "error"]
            /\ UNCHANGED lockFiles
       ELSE /\ queryRun' = [queryRun EXCEPT !.pc = "evaluate", !.cleanup = (how = "created")]
            /\ lockFiles' = IF how = "created" THEN lockFiles \cup {queryRuns} ELSE lockFiles
    /\ UNCHANGED <<besideQueryVars, queryRuns>>

\* the result looked at after the cleanup: the completed query when it
\* succeeded, undefined (and an error shown) when it did not
ResultOf(resultType) == IF resultType = "SUCCESS" THEN "completedQuery" ELSE "undefined"

\* await queryRun.evaluate(...) ends; cleanupLockFile?.() is called when
\* there is a cleanup
evaluateEnds(returns, resultType) ==
    /\ queryRun.pc = "evaluate"
    /\ IF ~returns
       THEN queryRun' = [queryRun EXCEPT !.pc = "done", !.outcome = "error"]
       ELSE IF queryRun.cleanup
            THEN queryRun' = [queryRun EXCEPT !.pc = "cleanup", !.resultType = resultType,
                                              !.cleaned = queryRun.cleaned + 1]
            ELSE queryRun' = [queryRun EXCEPT !.pc = "done", !.resultType = resultType,
                                              !.outcome = ResultOf(resultType)]
    /\ UNCHANGED <<besideQueryVars, queryRuns, lockFiles>>

\* await cleanupLockFile() ends; the result is looked at
cleanupEnds(ok) ==
    /\ queryRun.pc = "cleanup"
    /\ IF ok
       THEN /\ lockFiles' = lockFiles \ {queryRuns}
            /\ queryRun' = [queryRun EXCEPT !.pc = "done",
                                            !.outcome = ResultOf(queryRun.resultType)]
       ELSE /\ UNCHANGED lockFiles
            /\ queryRun' = [queryRun EXCEPT !.pc = "done", !.outcome = "error"]
    /\ UNCHANGED <<besideQueryVars, queryRuns>>

NextRunQuery ==
    \/ runQuery
    \/ \E how \in {"created", "none", "throw"} : lockFileCreated(how)
    \/ \E returns \in BOOLEAN, resultType \in ResultTypes : evaluateEnds(returns, resultType)
    \/ \E ok \in BOOLEAN : cleanupEnds(ok)

SpecRunQuery == InitRunQuery /\ [][NextRunQuery]_vars

(***************************************************************************)
(* Properties.                                                             *)
(***************************************************************************)
\* the running (or last) call did e
Occurs(e) == \E i \in 1..Len(events) : events[i] = e
\* how often it did
Count(e) == Cardinality({i \in 1..Len(events) : events[i] = e})
\* e happened, and before every f
Before(e, f) ==
    \A j \in 1..Len(events) : events[j] = f => \E i \in 1..(j - 1) : events[i] = e

\* the k-th name of the sequence name, name-1, name-2, ... for the running call
NthName(k) ==
    IF k = 0 THEN LastName(databaseUrl)
    ELSE LastName(databaseUrl) \o <<"-">> \o Decimal(k)

\* getStorageFolder has returned a folder and nothing has been unpacked yet
FolderChosen == pc \in {"databaseUnbundle", "fetch", "stream"}

\* C1: with allowHttp off, fetch is never called with a location whose scheme
\* is not https, whichever entry point supplied the location.
C1_NoInsecureRequest ==
    ~allowHttp => \A u \in requested : UriScheme(u) = "https"

\* C2: in promptImportInternetDatabase a parsable location that is not https
\* is rejected with the insecure-transport error when allowHttp is off, before
\* any report, directory creation, request or registration; an https location
\* passes validateUrl whatever the setting, and every parsable location passes
\* it when allowHttp is on.
C2_TransportGate ==
    (entryPoint = "promptImportInternetDatabase" /\ databaseUrl.scheme # "") =>
        IF ~allowHttp /\ databaseUrl.scheme # "https"
        THEN /\ outcome = "error"
             /\ error = "Must use https for downloading a database."
             /\ progressLog = <<>>
             /\ events = <<"validateUrl:throw">>
             /\ requested = {}
        ELSE /\ ~Occurs("validateUrl:throw")
             /\ error \notin {"Must use https for downloading a database.", "Invalid url"}
             /\ progressLog # <<>>

\* C2's case: an http location typed at the prompt was rejected
C2_Witness ==
    /\ entryPoint = "promptImportInternetDatabase"
    /\ databaseUrl = HttpDbZip
    /\ ~allowHttp
    /\ error = "Must use https for downloading a database."

\* the stages of databaseArchiveFetcher, and the events of their failures
StageEvents ==
    {"ensureDir", "getStorageFolder", "fetch", "databaseUnbundle", "findDirWithFile",
     "ensureZippedSourceLocation", "openDatabase"}
FailureEvents ==
    {"getStorageFolder:throw", "fetchAndUnzip:throw", "databaseUnbundle:throw",
     "findDirWithFile:undefined", "zip:throw", "remove:throw", "openDatabase:throw"}

\* C3: openDatabase is invoked at most once per import, and only after the
\* unpack has completed, findDirWithFile has returned a directory and
\* ensureZippedSourceLocation has completed, in this order; after a failure
\* of a stage nothing runs but the error passing through the callers, and the
\* import ends with an error; no stage runs twice.
C3_StagesInOrder ==
    /\ Count("openDatabase") + Count("openDatabase:throw") <= 1
    /\ Before("databaseUnbundle", "findDirWithFile")
    /\ Before("findDirWithFile", "ensureZippedSourceLocation")
    /\ Before("ensureZippedSourceLocation", "openDatabase")
    /\ Before("ensureZippedSourceLocation", "openDatabase:throw")
    /\ (pc = "ensured" => Occurs("ensureZippedSourceLocation") /\ dbPath.found)
    /\ \A e \in StageEvents : Count(e) <= 1
    /\ \A i \in 1..Len(events) :
          events[i] \in FailureEvents =>
             /\ \A j \in (i + 1)..Len(events) : events[j] \in FailureEvents
             /\ outcome = "error"
             /\ events[i] # "openDatabase:throw" =>
                   ~Occurs("openDatabase") /\ ~Occurs("openDatabase:throw")

\* C3's case: an import has registered its database
C3_Witness ==
    /\ outcome = "item"
    /\ Occurs("openDatabase")
    /\ Occurs("zip")

\* fetchAndUnzip has returned or thrown
FetchAndUnzipFinished == Occurs("fetchAndUnzip:return") \/ Occurs("fetchAndUnzip:throw")

\* C4: once fetchAndUnzip has finished, normally or not, the temporary archive
\* is not on disk, or its removal has been initiated, or the close whose
\* callback removes it has been.
C4_TemporaryArchiveRemoved ==
    FetchAndUnzipFinished =>
        \/ archivePath \notin tmpFiles
        \/ archivePath \in closing
        \/ Occurs("remove:archive")

\* C5: the steps reported to the progress callback within one top-level call
\* never decrease.
C5_StepsNonDecreasing ==
    \A i \in 1..(Len(progressLog) - 1) : progressLog[i].step <= progressLog[i + 1].step

\* C6: getStorageFolder returns the first name of name, name-1, name-2, ...
\* that does not exist in the storage root; the folder it returns does not
\* exist when it is returned (with db, db-1 and db-2 there, db.zip gets db-3).
C6_FirstFreeName ==
    FolderChosen =>
        /\ ~pathExists(storage, unzipPath)
        /\ \E k \in 0..MaxCounter :
              /\ unzipPath = NthName(k)
              /\ \A j \in 0..(k - 1) : pathExists(storage, NthName(j))

\* C6's case: db, db-1 and db-2 exist and db.zip was given db-3
C6_Witness ==
    /\ FolderChosen
    /\ {<<"d", "b">>, <<"d", "b", "-", "1">>, <<"d", "b", "-", "2">>} \subseteq storage
    /\ unzipPath = <<"d", "b", "-", "3">>

\* the first n names of the sequence all exist
AllTaken(n) == \A k \in 0..(n - 1) : pathExists(storage, NthName(k))

\* C7 as stated: with 100 existing names (the base name and the 99 candidates
\* after it) getStorageFolder fails, so it never returns a folder then.
C7_FailsAfter100 == FolderChosen => ~AllTaken(MaxCounter)

\* C7 as amended: getStorageFolder fails with the name-exhaustion error exactly
\* when the base name and name-1 .. name-100 all exist, 101 names.
C7_FailsAfter101 ==
    /\ FolderChosen => ~AllTaken(MaxCounter + 1)
    /\ Occurs("getStorageFolder:throw") =>
          /\ AllTaken(MaxCounter + 1)
          /\ error = "Could not find a unique name for downloaded database."
    /\ (pc = "getStorageFolder" /\ AllTaken(MaxCounter + 1)) =>
          ~getStorageFolder(storage, databaseUrl).ok

\* C7's case: 101 names exist and the call failed for want of a name
C7_Witness ==
    /\ Occurs("getStorageFolder:throw")
    /\ Cardinality(storage) = MaxCounter + 1

\* C8 as stated: after a successful import the database root never holds both
\* a loose src and a src.zip.
C8_NeverBoth ==
    outcome = "item" => ~({"src", "src.zip"} \subseteq RootNames(tree))

\* C8 as amended: after a successful import the database root holds a loose
\* src only if the unpacked archive's root held both src and src.zip, which
\* are then left as they were.
C8_LooseSrcOnlyIfBoth ==
    (outcome = "item" /\ "src" \in RootNames(tree)) =>
        /\ {"src", "src.zip"} \subseteq RootNames(treeAtCall)
        /\ tree = treeAtCall

\* C8's case: an archive with only a loose src was imported
C8_Witness ==
    /\ outcome = "item"
    /\ "src" \in RootNames(treeAtCall)
    /\ "src.zip" \notin RootNames(treeAtCall)
    /\ "src" \notin RootNames(tree)
    /\ "src.zip" \in RootNames(tree)

\* C9: once a call of ensureZippedSourceLocation has returned normally, a
\* further call on the same root leaves the root as it is, reaches neither
\* zip nor remove, and does not fail.
C9_Idempotent ==
    [][normalizeCalls >= 1 => (tree' = tree /\ pc' \notin {"zip", "remove", "done"})]_vars

\* C9's case: the first call zipped and removed src, the second has returned
C9_Witness ==
    /\ normalizeCalls = 2
    /\ "src" \notin RootNames(tree)
    /\ \E i \in 1..Len(RootListing(tree)) :
          RootListing(tree)[i].name = "src.zip" /\ RootListing(tree)[i].data = "zip"

\* C10: when src.zip exists as ensureZippedSourceLocation is entered, and when
\* neither src nor src.zip does, the call changes nothing: no zip, no remove,
\* the root as it was.
C10_ExistingZipUntouched ==
    ("src.zip" \in RootNames(treeAtCall) \/ "src" \notin RootNames(treeAtCall)) =>
        /\ tree = treeAtCall
        /\ ~Occurs("zip") /\ ~Occurs("zip:throw")
        /\ ~Occurs("remove:src") /\ ~Occurs("remove:throw")
        /\ pc # "done"

\* C10's case: a call on a root with both src and src.zip has returned
C10_Witness ==
    /\ normalizeCalls = 1
    /\ {"src", "src.zip"} \subseteq RootNames(treeAtCall)
    /\ events = <<"ensureZippedSourceLocation">>

RECURSIVE MarkerDirs(_, _, _)
\* the paths of the directories below (and including) entry, itself at path,
\* that have a child named by one of the names
MarkerDirs(entry, path, names) ==
    IF entry.kind # "dir" THEN {}
    ELSE (IF NameSet(entry.children) \cap names # {} THEN {path} ELSE {})
         \cup UNION { MarkerDirs(entry.children[i], Append(path, entry.children[i].name), names) :
                        i \in 1..Len(entry.children) }

\* C11: when exactly one directory of the tree has a child named by one of the
\* names, findDirWithFile returns that directory, whatever the order of the
\* listings; when no directory has, and when the root is not a directory, it
\* returns undefined.
C11_LocatesTheOnlyRoot ==
    pc = "done" =>
        /\ Cardinality(MarkerDirs(dir, <<>>, wanted)) = 1 =>
               dbPath.found /\ dbPath.path \in MarkerDirs(dir, <<>>, wanted)
        /\ MarkerDirs(dir, <<>>, wanted) = {} => dbPath = NotFound
        /\ dir.kind # "dir" => dbPath = NotFound

\* C11's case: the only directory with a marker is two levels down and comes
\* last in the listing of the root
C11_Witness ==
    /\ pc = "done"
    /\ dir.kind = "dir"
    /\ Len(dir.children) = 3
    /\ dir.children[3].name = "c"
    /\ MarkerDirs(dir, <<>>, wanted) = {<<"c", "d">>}
    /\ dbPath = [found |-> TRUE, path |-> <<"c", "d">>]

\* the step in which the listing of the databases arrives
ListingArrives == pc = "listCodeqlDatabases" /\ Len(events') > Len(events)

\* the language argument is among the languages of the listing that arrives
ArgumentListed == language # "" /\ language \in LanguageSet(listing')

\* the step took the language named without showing the picker
TakesDirectly(name) ==
    /\ pc' = "auth"
    /\ language' = name
    /\ \A i \in 1..Len(events') : events'[i] # "showQuickPick"

\* the steps after the choice: the picker's selection is one of the listed
\* languages and is the language used, and the entry the resolution goes on
\* with is the first listed entry of the language chosen
SelectionUsed ==
    /\ (pc = "showQuickPick" /\ pc' # pc) =>
           \/ pc' = "auth" /\ language' \in LanguageSet(listing)
           \/ pc' = "done" /\ outcome' = "undefined"
    /\ (pc # "auth" /\ pc' = "auth") =>
           /\ DatabaseForLanguage(listing', language').language = language'
           /\ databaseUrl' = DatabaseForLanguage(listing', language').url

\* C12 as stated: a language argument that is listed is used and the picker
\* is not shown; otherwise a single available language is used and the picker
\* is not shown; otherwise the picker is shown with the available languages
\* and its selection is used; the entry returned has the chosen language.
C12_LanguageChoice ==
    [][/\ ListingArrives =>
             IF ArgumentListed THEN TakesDirectly(language)
             ELSE IF Len(listing') = 1 THEN TakesDirectly(listing'[1].language)
             ELSE pc' = "showQuickPick"
       /\ SelectionUsed]_vars

\* C12 as amended: as stated, but when the argument is not listed and no
\* language is available the picker is not shown and the resolution fails
\* with the lookup error; the picker is shown for two or more languages.
C12_LanguageChoiceOrNone ==
    [][/\ ListingArrives =>
             IF ArgumentListed THEN TakesDirectly(language)
             ELSE IF Len(listing') = 1 THEN TakesDirectly(listing'[1].language)
             ELSE IF Len(listing') = 0
                  THEN /\ pc' = "done"
                       /\ outcome' = "error"
                       /\ error' = UnableToGet
                       /\ \A i \in 1..Len(events') : events'[i] # "showQuickPick"
                  ELSE /\ pc' = "showQuickPick"
                       /\ events'[Len(events')] = "showQuickPick"
       /\ SelectionUsed]_vars

\* C12's case: the argument was not listed, two languages were, and the
\* picker's selection (the second entry) is the language resolved
C12_Witness ==
    /\ pc = "auth"
    /\ Occurs("showQuickPick")
    /\ Len(listing) = 2
    /\ language = listing[2].language

\* the last thing the call did was to find a prompt dismissed
Dismissed(done) ==
    /\ done # <<>>
    /\ done[Len(done)] \in {"showInputBox:undefined", "showQuickPick:undefined"}

\* C13: when the URL input box, the repository input box or the language
\* picker returns no value, the top-level call returns undefined and raises
\* no error, and from the dismissal on it creates no storage directory, asks
\* for no download, starts no unpack and registers no database.
C13_DismissalIsNoError ==
    [][Dismissed(events') =>
          /\ pc' = "done"
          /\ outcome' = "undefined"
          /\ error' = "" /\ thrown' = ""
          /\ storageDir' = storageDir /\ storage' = storage
          /\ tmpFiles' \subseteq tmpFiles
          /\ requested' = {} /\ archivePath' = 0 /\ unzipPath' = <<>>
          /\ databaseItems' = databaseItems
          /\ currentDatabaseItem' = currentDatabaseItem
          /\ \A i \in 1..Len(events') :
                events'[i] \notin StageEvents \cup {"createWriteStream"}]_vars

\* C13's case: the language picker was dismissed, in a first call, with the
\* storage root still missing
C13_Witness ==
    /\ events = <<"listCodeqlDatabases", "promptForLanguage", "showQuickPick",
                  "showQuickPick:undefined">>
    /\ outcome = "undefined"
    /\ ~storageDir
    /\ databaseItems = <<>>

\* C14: when databaseUnbundle fails with a message containing "unexpected
\* end of file", whether the import is of a local archive, of a URL or from
\* GitHub, the caller of the import receives the corrupt-archive error with
\* the advice to unzip outside of VS Code, not the error of the unpacker.
C14_CorruptArchiveReported ==
    (Occurs("databaseUnbundle:throw") /\ IncludesUnexpectedEof(thrown)) =>
        /\ outcome = "error"
        /\ error = CorruptArchive

\* the entry points that resolve a database through the GitHub API
GitHubEntryPoints == {"promptImportGithubDatabase", "downloadGitHubDatabase"}

LocalArchiveImported ==
    /\ outcome = "item"
    /\ UriScheme(databaseUrl) = "file"
    /\ LastName(databaseUrl) \notin (storage \ {unzipPath})

\* the import registered one database, rooted at a directory with a marker
\* inside <storage>/X, and returned it as the current database
RegisteredOnce ==
    /\ unzipPath = LastName(databaseUrl)
    /\ unzipPath \in storage
    /\ Count("openDatabase") = 1
    /\ Cardinality({i \in 1..Len(databaseItems) : databaseItems[i].folder = unzipPath}) = 1
    /\ currentDatabaseItem = Len(databaseItems)
    /\ databaseItems[currentDatabaseItem].folder = unzipPath
    /\ databaseItems[currentDatabaseItem].path \in MarkerDirs(Dir("", tree), <<>>, Markers)
    /\ databaseItems[currentDatabaseItem].path = dbPath.path

\* C18 as stated: importing file:///.../X.zip into a storage root without a
\* folder X registers exactly one database, rooted at the directory with the
\* marker inside <storage>/X, returns it (the manager's current database),
\* and leaves a loose src of that root replaced by src.zip.
C18_LocalImport ==
    LocalArchiveImported =>
        /\ RegisteredOnce
        /\ "src" \in RootNames(treeAtCall) =>
               "src" \notin RootNames(tree) /\ "src.zip" \in RootNames(tree)

\* C18 as amended: the same, a loose src being replaced by src.zip when the
\* root held no src.zip; a root that held both keeps both as they were.
C18_LocalImportUnlessZipped ==
    LocalArchiveImported =>
        /\ RegisteredOnce
        /\ ("src" \in RootNames(treeAtCall) /\ "src.zip" \notin RootNames(treeAtCall)) =>
               "src" \notin RootNames(tree) /\ "src.zip" \in RootNames(tree)
        /\ "src.zip" \in RootNames(treeAtCall) => tree = treeAtCall

\* C18's case: db.zip, holding nested/.dbinfo and a loose nested/src, was
\* imported into a storage root without db
C18_Witness ==
    /\ LocalArchiveImported
    /\ entryPoint = "importArchiveDatabase"
    /\ databaseUrl = FileDbZip
    /\ treeAtCall = ArcNestedSrc
    /\ databaseItems[currentDatabaseItem] = [folder |-> <<"d", "b">>, path |-> <<"nested">>]
    /\ RootNames(tree) = {".dbinfo", "src.zip"}

\* databaseUnbundle has been called by the running call
UnbundleCalled ==
    pc = "databaseUnbundle" \/ Occurs("databaseUnbundle") \/ Occurs("databaseUnbundle:throw")

\* C19: when the location has the file scheme the import asks for nothing
\* over the network, creates no temporary archive, gives databaseUnbundle the
\* referenced path itself, and removes nothing but the loose src of the
\* unpacked database, whether it succeeds or fails.
C19_LocalArchiveRead ==
    (databaseUrl # NoUrl /\ UriScheme(databaseUrl) = "file") =>
        /\ requested = {}
        /\ archivePath = 0
        /\ calls \notin tmpFiles
        /\ \A i \in 1..Len(events) :
              events[i] \notin {"fetch", "createWriteStream", "finish", "close",
                                "remove:archive", "fetchAndUnzip:return",
                                "fetchAndUnzip:throw"}
        /\ UnbundleCalled => zipFile = databaseUrl.path

\* C19's case: the import of a local archive failed in databaseUnbundle
C19_Witness ==
    /\ databaseUrl = FileDbZip
    /\ Occurs("databaseUnbundle:throw")
    /\ outcome = "error"
    /\ zipFile = <<<<"t", "m", "p">>, <<"d", "b", ".", "z", "i", "p">>>>

\* the fields checkForFailingResponse looks at, in the order of their priority
ReasonFields == <<"error", "message", "reason">>

\* the body is a JSON object with a member of this name
Present(body, name) ==
    body.kind = "object" /\ \E i \in 1..Len(body.fields) : body.fields[i][1] = name

\* the body is a JSON object with a member of this name whose value is not empty
PresentWithText(body, name) ==
    body.kind = "object" /\
    \E i \in 1..Len(body.fields) : body.fields[i][1] = name /\ body.fields[i][2] # ""

\* the value of the first of the three fields that Has says the body has; the
\* pretty-printed JSON when it has none; the text of a body that is not JSON
FirstOf(body, Has(_, _)) ==
    IF \E k \in 1..Len(ReasonFields) : Has(body, ReasonFields[k])
    THEN Member(body.fields,
                ReasonFields[CHOOSE k \in 1..Len(ReasonFields) :
                                /\ Has(body, ReasonFields[k])
                                /\ \A j \in 1..(k - 1) : ~Has(body, ReasonFields[j])])
    ELSE IF body.kind = "object" THEN Pretty(body.fields)
    ELSE body.text

\* fetch resolved with a response that is not ok
FailingResponse == response # NoResponse /\ ~response.ok

\* the call failed with this reason, before the archive was created
FailedWithReason(reason) ==
    /\ outcome = "error"
    /\ error = "Error downloading database.\n\nReason: " \o reason
    /\ archivePath \notin tmpFiles
    /\ ~Occurs("createWriteStream")
    /\ ~UnbundleCalled
    /\ zipFile = <<>>

\* C20 as stated: on a response that is not ok the call fails, the reason in
\* the error being the body's error field, else its message field, else its
\* reason field, else the pretty-printed JSON when none of the three is
\* present, else the raw text of a body that is not JSON; no temporary
\* archive is created and databaseUnbundle is not called.
C20_ReasonByPresence ==
    FailingResponse => FailedWithReason(FirstOf(response.body, Present))

\* C20 as amended: the same, a field counting only when its value is not
\* empty (truthy): the reason is the first of error, message and reason with
\* such a value, and the pretty-printed JSON when none of them has one.
C20_ReasonByValue ==
    FailingResponse => FailedWithReason(FirstOf(response.body, PresentWithText))

\* C20's case: the body had an empty error and a message, and the message is
\* the reason given
C20_Witness ==
    /\ FailingResponse
    /\ Present(response.body, "error")
    /\ error = "Error downloading database.\n\nReason: m"

\* the i-th import is inside fetchAndUnzip, its archive path made
InFetchAndUnzip(i) == imports[i].fetching

\* C16: two calls of fetchAndUnzip in flight at the same time never have the
\* same temporary archive path, also when both read the same time.
C16_ArchivePathsDiffer ==
    \A i, j \in Importers :
        (i # j /\ InFetchAndUnzip(i) /\ InFetchAndUnzip(j)) =>
            imports[i].archivePath # imports[j].archivePath

\* getStorageFolder has returned to the i-th import
HasFolder(i) == imports[i].unzipPath # <<>>

\* C17: getStorageFolder guards against the directories that exist when its
\* check runs, and against no others: the folder it returns is the first of
\* name, name-1, ... that did not exist when its last check ran, whatever
\* folder another import has been given and not yet created.  (That two
\* imports are then given the same folder is what the witness shows.)
C17_ChecksExistingOnly ==
    \A i \in Importers :
        HasFolder(i) =>
            /\ imports[i].unzipPath \notin imports[i].seen
            /\ imports[i].unzipPath =
                  Candidate(LastName(imports[i].databaseUrl), imports[i].counter)
            /\ \A k \in 0..(imports[i].counter - 1) :
                  Candidate(LastName(imports[i].databaseUrl), k) \in imports[i].seen

\* C17's case: two imports of archives called db.zip into one storage root
\* have both passed the check before either folder was created, and both
\* have been given the same folder
C17_Witness ==
    /\ imports[1].pc \in {"fetch", "stream", "databaseUnbundle"}
    /\ imports[2].pc \in {"fetch", "stream", "databaseUnbundle"}
    /\ LastName(imports[1].databaseUrl) = LastName(imports[2].databaseUrl)
    /\ imports[1].unzipPath = imports[2].unzipPath
    /\ imports[1].unzipPath \notin storage

\* the running (or last) call ended because the timeout signal fired
TimedOut == outcome = "error" /\ thrown = Aborted

StripZip(name) == IF EndsWith(name, DotZip) THEN SubSeq(name, 1, Len(name) - 4) ELSE name

\* the first MaxNameLength characters of the name
Truncate(name) == IF Len(name) > MaxNameLength THEN SubSeq(name, 1, MaxNameLength) ELSE name

\* getStorageFolder returned the name it tried first
Undisambiguated == FolderChosen /\ storage = {}

\* C22: the folder name before disambiguation is the archive's base name
\* with a .zip suffix stripped first and the result then cut to 250
\* characters, also for base names longer than 250 characters ending in .zip.
C22_StripThenTruncate ==
    Undisambiguated => unzipPath = Truncate(StripZip(Basename(databaseUrl.path)))

\* C23: the last component of the folder getStorageFolder returns, with
\* its counter, is at most 255 characters long, whatever the location of the
\* archive and whatever the storage root holds.
C23_NameFitsFilesystem ==
    FolderChosen => Len(unzipPath) <= 255

\* C23's case: a base name of more than 250 characters, the first hundred
\* names taken: the folder is the name cut to 250 characters and "-100"
C23_Witness ==
    /\ FolderChosen
    /\ Len(Basename(databaseUrl.path)) > MaxNameLength
    /\ Cardinality(storage) = MaxCounter
    /\ Len(unzipPath) = MaxNameLength + 4

\* p is a proper ancestor of q
ProperAncestor(p, q) == Len(p) < Len(q) /\ SubSeq(q, 1, Len(p)) = p

\* where the k-th component of path p stands in the listing of its parent
ListedAt(p, k) == IndexOf(ChildrenAt(dir.children, SubSeq(p, 1, k - 1)), p[k])

\* p and q part at some level, and there p's side is listed before q's
ListedBefore(p, q) ==
    \E k \in 1..Len(p) :
        /\ k <= Len(q)
        /\ SubSeq(p, 1, k - 1) = SubSeq(q, 1, k - 1)
        /\ p[k] # q[k]
        /\ ListedAt(p, k) < ListedAt(q, k)

\* C24: findDirWithFile returns the first directory with a marker in
\* depth-first pre-order along the order of the listings: no proper ancestor
\* of the directory returned has a marker, and every other directory with a
\* marker lies below it or in a subtree listed after the one it is in, however
\* deep it is there; a directory is found whenever one has a marker.
C24_FirstInPreOrder ==
    (pc = "done" /\ MarkerDirs(dir, <<>>, wanted) # {}) =>
        /\ dbPath.found
        /\ dbPath.path \in MarkerDirs(dir, <<>>, wanted)
        /\ \A q \in MarkerDirs(dir, <<>>, wanted) :
              /\ ~ProperAncestor(q, dbPath.path)
              /\ q # dbPath.path =>
                    ProperAncestor(dbPath.path, q) \/ ListedBefore(dbPath.path, q)

\* C24's case: c, with its marker two levels down, is listed before b, which
\* has a marker of its own, and c/d is returned
C24_Witness ==
    /\ pc = "done"
    /\ dir.kind = "dir"
    /\ Len(dir.children) >= 2
    /\ dir.children[1].name = "c"
    /\ dir.children[2].name = "b"
    /\ {<<"b">>, <<"c", "d">>} \subseteq MarkerDirs(dir, <<>>, wanted)
    /\ dbPath = [found |-> TRUE, path |-> <<"c", "d">>]

\* the entry called name in a listing
EntryNamed(children, name) == children[IndexOf(children, name)]

\* C25: in ensureZippedSourceLocation the loose src is removed only after zip
\* has completed: remove is not reached before zip has returned, and when
\* zip fails the call fails with zip's error, src is as it was, and
\* openDatabase is not invoked.
C25_RemoveOnlyAfterZip ==
    /\ Before("zip", "remove:src")
    /\ Before("zip", "remove:throw")
    /\ pc = "remove" => Occurs("zip")
    /\ "src" \in RootNames(treeAtCall) /\ "src" \notin RootNames(tree) =>
           /\ Occurs("zip")
           /\ EntryNamed(RootListing(tree), "src.zip").children =
                 EntryNamed(RootListing(treeAtCall), "src").children
    /\ Occurs("zip:throw") =>
           /\ pc = "done"
           /\ outcome = "error"
           /\ error = "zip failed"
           /\ EntryNamed(RootListing(tree), "src") = EntryNamed(RootListing(treeAtCall), "src")
           /\ ~Occurs("remove:src") /\ ~Occurs("remove:throw")
           /\ ~Occurs("openDatabase") /\ ~Occurs("openDatabase:throw")

\* C25's case: zip failed leaving part of a src.zip, and src is still there
C25_Witness ==
    /\ Occurs("zip:throw")
    /\ outcome = "error"
    /\ "src" \in RootNames(tree)
    /\ \E i \in 1..Len(RootListing(tree)) :
          RootListing(tree)[i].name = "src.zip" /\ RootListing(tree)[i].data = "partial"

\* a language has been selected for the running call, by the argument, by
\* the only entry of the listing or by the picker
LanguageSelected == pc = "auth"

\* C26: the language is selected from the listing the database is looked up
\* in, so once a language has been selected the listing has an entry of that
\* language, and "No database found for language" is never thrown, whatever
\* the listing, the argument and the picker's selection.
C26_NoDatabaseBranchUnreachable ==
    /\ thrown # "No database found for language"
    /\ LanguageSelected =>
          /\ language \in LanguageSet(listing)
          /\ DatabaseForLanguage(listing, language) # NoEntry
          /\ DatabaseForLanguage(listing, language).language = language
          /\ databaseUrl = DatabaseForLanguage(listing, language).url

\* C26's case: the picker was shown for two languages and the language of
\* the first entry was selected
C26_Witness ==
    /\ LanguageSelected
    /\ Occurs("showQuickPick")
    /\ Len(listing) = 2
    /\ language = listing[1].language
    /\ databaseUrl = listing[1].url

\* the step in which findDirWithFile returns from a tree without a marker
NoMarkerFound ==
    /\ pc = "findDirWithFile" /\ pc' # pc
    /\ MarkerDirs(Dir("", tree), <<>>, Markers) = {}

\* the step in which getStorageFolder returns or throws
FolderDecided == pc = "getStorageFolder" /\ pc' # pc

\* C27: when the unpacked tree has no marker the import fails with the
\* database-not-found error, registers nothing and leaves the unpacked folder
\* in the storage root, where nothing removes it; so a retry is given the
\* next name of name, name-1, ... that is free, and once the failed imports
\* have left all of name .. name-100 the import fails for want of a name.
C27_FailedImportsUseUpNames ==
    [][/\ storage \subseteq storage'
       /\ NoMarkerFound =>
             /\ pc' = "done"
             /\ outcome' = "error"
             /\ error' = "Database not found in archive."
             /\ databaseItems' = databaseItems
             /\ currentDatabaseItem' = currentDatabaseItem
             /\ unzipPath \in storage'
             /\ \A i \in 1..Len(events') : events'[i] \notin {"openDatabase", "zip"}
       /\ FolderDecided =>
             IF AllTaken(MaxCounter + 1)
             THEN /\ outcome' = "error"
                  /\ error' = "Could not find a unique name for downloaded database."
             ELSE /\ unzipPath' \notin storage
                  /\ \E k \in 0..MaxCounter : unzipPath' = NthName(k) /\ AllTaken(k)]_vars

\* C27's case: a second import of db.zip without a marker has failed, in
\* db-3, db-1 having been left by the first import, which failed too
C27_Witness ==
    /\ calls = 2
    /\ Occurs("findDirWithFile:undefined")
    /\ error = "Database not found in archive."
    /\ unzipPath = <<"d", "b", "-", "3">>
    /\ {<<"d", "b", "-", "1">>, <<"d", "b", "-", "3">>} \subseteq storage
    /\ databaseItems = <<>>

\* the failed imports have left the last free name taken, and the next import
\* of the archive fails for want of a name
C27_Exhausted ==
    /\ calls = 2
    /\ Occurs("getStorageFolder:throw")
    /\ <<"d", "b", "-", "1", "0", "0">> \in storage
    /\ databaseItems = <<>>

\* every call of showResults and changeTable made so far has settled
AllSettled == \A i \in ViewCallers : viewCalls[i].pc \in {"idle", "done"}

\* a comparison of the pair now stored has been posted
PostedForCurrent == \E k \in 1..Len(posted) : posted[k].pair = comparePair

\* C28: the comparison shown is that of the pair requested last: whatever
\* the order in which the calls of showResults and changeTable are suspended
\* and resumed, once they have all settled the last setComparisons message
\* posted was computed from the pair stored in comparePair.  (Stated for the
\* runs in which a comparison of that pair was posted at all.)
C28_LastPostedIsCurrentPair ==
    (AllSettled /\ comparePair # NoPair /\ PostedForCurrent) =>
        posted[Len(posted)].pair = comparePair

\* C29: every setComparisons message has either rows or message and not
\* both, a failure of the diff does not make the call fail, and no message
\* is posted while comparePair is unset.
C29_MessageWellFormed ==
    [][Len(posted') > Len(posted) =>
          LET m == posted'[Len(posted')]
          IN  /\ (m.rows = "undefined") # (m.message = "undefined")
              /\ \A i \in ViewCallers :
                    viewCalls'[i].outcome = "error" => viewCalls[i].outcome = "error"
              /\ comparePair # NoPair]_vars

\* runQuery has been left, a lock file having been created for it
LeftWithLockFile == queryRun.pc = "done" /\ queryRun.cleanup

====
